---- MODULE Spec2Model ----
(***************************************************************************)
(* MASH world runtime: the action-point economy, the action queue, the     *)
(* tick engine, the event store and the response envelope.                 *)
(*                                                                         *)
(* The store (SQLite tables agents, instances, action_queue, events,       *)
(* link_usage, world_state) is the state.  Request handlers and            *)
(* processTick are synchronous JavaScript, so each is one atomic action;   *)
(* the /wait handler is two actions, split at its await.                   *)
(***************************************************************************)
EXTENDS Integers, Sequences, FiniteSets, TLC

VARIABLES
    agents,         \* agents table: id -> [ap, purchased_ap_this_tick, current_node_id, see_broadcasts]
    instances,      \* instances table: id -> row
    action_queue,   \* action_queue table, ordered by id
    events,         \* events table, ordered by id
    link_usage,     \* link_usage table, ordered by id
    tick_number,    \* world_state 'tick_number'
    qseq,           \* AUTOINCREMENT counter of action_queue
    eseq,           \* AUTOINCREMENT counter of events
    tickWaiters,    \* the set of parked /wait resolvers (one per agent here)
    pc,             \* per agent: position of its /wait request
    lastResp,       \* history: the response served by the last handler step
    hist,           \* history: per action_queue id, what happened to the entry
    recv,           \* history: per agent, the events its envelopes carried, in order
    lastTick,       \* history: per entry drained by the last processTick, what it did
    charged,        \* history: per agent, AP cost of the requests accepted since the last reset
    refunded,       \* history: per agent, AP given back by refundAp since the last reset
    expired,        \* history: the event rows deleted by the cleanup of a tick
    last_tick_at,   \* world_state 'last_tick_at'
    dropped,        \* the ids of the rows deleted from the templates table
    now,            \* the wall clock, what Date.now() returns
    tickTimer,      \* whether the setInterval handle of the tick loop is set
    tickPhase       \* how far a running processTick has got; 0 when none is running

vars == <<agents, instances, action_queue, events, link_usage, tick_number, qseq, eseq,
          tickWaiters, pc, lastResp, hist, recv, lastTick, charged, refunded, expired,
          last_tick_at, dropped, now, tickTimer, tickPhase>>

(* What no request handler writes: the clock, the timer handle, the position
   of processTick *)
runtime == <<now, tickTimer, tickPhase>>

----------------------------------------------------------------------------
(* Program constants *)

MAX_AP == 4
MAX_BUY_AP_PER_TICK == 20
MAX_EVENTS_PER_RESPONSE == 200
MAX_INTERACTIONS_PER_TICK == 4
MAX_CONTAINMENT_DEPTH == 5

(* Bounds of the model *)

MaxTick == 2        \* processTick runs at most this many times
MaxQueue == 2       \* at most this many entries wait in action_queue
MaxEvents == 3      \* at most this many event rows are inserted beyond the initial backlog
MaxVia == 2         \* `via` arrays of the general input set have at most this many hops
MaxNow == 2         \* the clock advances at most this many times
LongRoute == 21     \* hops of the one long `via` array of the travel input set
MaxWorldQueue == 3  \* queued actions of a run in the world of boxes
MaxWorldEvents == 8 \* event rows of a run in the world of boxes
MaxUses == 5        \* custom verbs of a run of the budget input set
MaxHopEvents == 48  \* event rows of a run of the hops input set

NULL == "null"

Agents == {"a1", "a2"}
AgentOrder == <<"a1", "a2">>            \* rowid order of the agents table

home_node_id == [a \in Agents |-> IF a = "a1" THEN "h1" ELSE "h2"]
username == [a \in Agents |-> a]

----------------------------------------------------------------------------
(* The world: templates and instances.                                     *)

(* A permission rule: "any", "none", "owner", "node" or ["list", [usernames]] *)
PRule(kind) == [kind |-> kind, names |-> {}]
PList(names) == [kind |-> "list", names |-> names]

StockPermissions ==
    [inspect |-> PRule("any"), interact |-> PRule("any"), edit |-> PRule("owner"),
     delete |-> PRule("owner"), contain |-> PRule("owner"), perms |-> PRule("owner")]

Rule(on, do) == [on |-> on, do |-> do]

(* An effect of the rule language: [op, template id, ref, destination ref] *)
Eff(op, tpl, ref, dest) == [op |-> op, tpl |-> tpl, ref |-> ref, dest |-> dest]
Deny == Eff("deny", "null", "null", "null")
SayNumber == Eff("say", "null", "null", "null")     \* ["say", 5]: the message is no string
Add(ref, amount) == [op |-> "add", ref |-> ref, amount |-> amount]
Say(message) == [op |-> "say", message |-> message]
Perm(ref, key, rule) == [op |-> "perm", ref |-> ref, key |-> key, rule |-> rule]
Destroy(ref) == Eff("destroy", "null", ref, "null")
(* A condition [op, ref, value], a conditional block {if, do, else} among
   the effects, and a rule with conditions {on, if, do, else} *)
Cond(op, ref, value) == [op |-> op, ref |-> ref, value |-> value]
Block(if, do, else) == [if |-> if, do |-> do, else |-> else]
RuleIf(on, if, do, else) == [on |-> on, if |-> if, do |-> do, else |-> else]
AddN == Add("self.n", 1)

GateLevel == 20     \* the rule `gate` of template td denies when self.n is above this

TemplateIds == {"tn", "tg", "tl", "tk", "tw", "tb", "tx", "t5", "tp", "te", "td",
                "ls", "lsd", "ns", "nx", "ne", "tt", "tz", "lz"}

templates ==
    [t \in TemplateIds |->
        CASE t = "tn" -> [owner_id |-> "a1", type |-> "node",
                          default_permissions |-> StockPermissions,
                          interactions |-> << Rule("exit", <<Deny>>) >>]
          [] t = "tg" -> [owner_id |-> "a2", type |-> "node",
                          default_permissions |-> [StockPermissions EXCEPT !.interact = PRule("owner")],
                          interactions |-> << Rule("enter", <<Deny>>) >>]
          [] t = "tl" -> [owner_id |-> "a1", type |-> "link",
                          default_permissions |-> StockPermissions,
                          interactions |-> <<>>]
          [] t = "tk" -> [owner_id |-> "a1", type |-> "link",
                          default_permissions |-> StockPermissions,
                          interactions |-> << Rule("tick", <<>>), Rule("travel", <<Deny>>) >>]
          \* a plain node
          [] t = "tw" -> [owner_id |-> "a1", type |-> "node",
                          default_permissions |-> StockPermissions,
                          interactions |-> <<>>]
          \* a box
          [] t = "tb" -> [owner_id |-> "a1", type |-> "thing",
                          default_permissions |-> StockPermissions,
                          interactions |-> <<>>]
          \* a gadget with one rule per custom verb
          [] t = "tx" -> [owner_id |-> "a1", type |-> "thing",
                          default_permissions |-> StockPermissions,
                          interactions |->
                            << Rule("use", << Eff("destroy", "null", "container", "null") >>),
                               Rule("spin", << Eff("move", "null", "self", "self") >>),
                               Rule("grow", << Eff("create", "tw", "container", "null") >>),
                               Rule("grab", << Eff("take", "tb", "container", "null") >>),
                               Rule("hand", << Eff("give", "tb", "actor", "null") >>),
                               Rule("jam", << AddN, SayNumber >>),
                               Rule("poke", << AddN >>) >>]
          \* a thing with five `tick` rules
          [] t = "t5" -> [owner_id |-> "a1", type |-> "thing",
                          default_permissions |-> StockPermissions,
                          interactions |-> [k \in 1..5 |-> Rule("tick", <<AddN>>)]]
          \* a thing whose template gives a default for inspect only
          [] t = "tp" -> [owner_id |-> "a1", type |-> "thing",
                          default_permissions |-> [inspect |-> PRule("any")],
                          interactions |-> << Rule("poke", <<AddN>>) >>]
          \* a gadget whose rules act on its container, on the subject and on
          \* itself, each followed by ["add", "self.n", 1]
          [] t = "te" -> [owner_id |-> "a1", type |-> "thing",
                          default_permissions |-> StockPermissions,
                          interactions |->
                            << Rule("fill", << Add("container.n", 1), AddN >>),
                               Rule("mark", << Add("subject.n", 1), AddN >>),
                               Rule("grab", << Eff("take", "tb", "container", "null"), AddN >>),
                               Rule("hand", << Eff("give", "tb", "container", "null"), AddN >>),
                               Rule("use", << Destroy("container"), AddN >>),
                               Rule("lock", << Perm("container", "delete", PList({"a2"})),
                                               AddN >>),
                               Rule("seal", << Perm("self", "delete", PList({"a2"})),
                                               AddN >>) >>]
          \* a gadget with two rules per verb; the first can deny.  Each add
          \* has its own power of 2, and ["add", "self.n", 1] is what comes
          \* just before each deny
          [] t = "td" ->
              [owner_id |-> "a1", type |-> "thing",
               default_permissions |-> StockPermissions,
               interactions |->
                 << Rule("halt", << AddN, Deny, Add("self.n", 2) >>),
                    Rule("halt", << Add("self.n", 4) >>),
                    Rule("deep", << Block(<<>>,
                                          << Block(<<>>,
                                                   << AddN, Deny, Add("self.n", 2) >>,
                                                   <<>>),
                                             Add("self.n", 4) >>,
                                          <<>>),
                                    Add("self.n", 8) >>),
                    Rule("deep", << Add("self.n", 16) >>),
                    Rule("skip", << Block(<< Cond("gt", "self.n", 1000) >>,
                                          << AddN, Deny >>,
                                          << Add("self.n", 2) >>),
                                    Add("self.n", 4) >>),
                    Rule("skip", << Add("self.n", 8) >>),
                    Rule("gate", << Block(<< Cond("gt", "self.n", GateLevel) >>,
                                          << AddN, Deny, Add("self.n", 2) >>,
                                          <<>>),
                                    Add("self.n", 4) >>),
                    Rule("gate", << Add("self.n", 8) >>),
                    RuleIf("veto", << Cond("gt", "self.n", 1000) >>,
                           << Add("self.n", 2) >>, << AddN, Deny >>),
                    Rule("veto", << Add("self.n", 4) >>) >>]
          \* links and nodes whose rules say the verb they are fired with;
          \* lsd denies travel, nx denies exit, ne denies enter, after the say
          [] t = "ls" -> [owner_id |-> "a1", type |-> "link",
                          default_permissions |-> StockPermissions,
                          interactions |-> << Rule("travel", << Say("travel") >>) >>]
          [] t = "lsd" -> [owner_id |-> "a1", type |-> "link",
                           default_permissions |-> StockPermissions,
                           interactions |-> << Rule("travel", << Say("travel"), Deny >>) >>]
          [] t = "ns" -> [owner_id |-> "a1", type |-> "node",
                          default_permissions |-> StockPermissions,
                          interactions |-> << Rule("exit", << Say("exit") >>),
                                              Rule("enter", << Say("enter") >>) >>]
          [] t = "nx" -> [owner_id |-> "a1", type |-> "node",
                          default_permissions |-> StockPermissions,
                          interactions |-> << Rule("exit", << Say("exit"), Deny >>),
                                              Rule("enter", << Say("enter") >>) >>]
          \* a thing and a link that destroy the instance their field
          \* `destination` names, on tick and on travel
          [] t = "tz" -> [owner_id |-> "a1", type |-> "thing",
                          default_permissions |-> StockPermissions,
                          interactions |-> << Rule("tick", << Destroy("self.destination") >>) >>]
          [] t = "lz" -> [owner_id |-> "a1", type |-> "link",
                          default_permissions |-> StockPermissions,
                          interactions |-> << Rule("travel", << Destroy("self.destination") >>) >>]
          \* a thing that counts and announces its takes and drops
          [] t = "tt" -> [owner_id |-> "a1", type |-> "thing",
                          default_permissions |-> StockPermissions,
                          interactions |-> << Rule("take", << AddN, Say("take") >>),
                                              Rule("drop", << AddN, Say("drop") >>) >>]
          [] t = "ne" -> [owner_id |-> "a1", type |-> "node",
                          default_permissions |-> StockPermissions,
                          interactions |-> << Rule("exit", << Say("exit") >>),
                                              Rule("enter", << Say("enter"), Deny >>) >>]]

NodeIds == {"h1", "h2", "n1", "n2"}
LinkIds == {"p1", "p2", "l1", "l2", "lk", "lg", "lv", "ld", "lh", "lb", "lx"}
InstanceIds == NodeIds \cup LinkIds

(* The other world of the model: a node w1 with a box b1 that holds the
   gadget x1, a second box b2, and g5 with its five tick rules *)
WorldIds == {"h1", "h2", "w1", "b1", "x1", "b2", "g5"}

(* The ids that instances created later get, in the order of creation *)
FreshIds == <<"c1", "c2">>

InstanceOrder == <<"h1", "p1", "i1", "h2", "p2", "i2", "n1", "n2",
                   "l1", "l2", "lk", "lg", "lv", "ld", "lh", "lb", "lx",
                   "w1", "b1", "x1", "b2", "g5", "o1", "d1", "k1", "k2", "k3", "z1", "z2",
                   "c1", "c2">>   \* by created_at

HomePermissions(a) ==
    [inspect |-> PRule("any"), interact |-> PList({username[a]}),
     edit |-> PList({username[a]}), delete |-> PRule("none"),
     contain |-> PList({username[a]}), perms |-> PList({username[a]})]

Row(tid, type, perms, ctype, cid, void, destroyed, sys, dest) ==
    [template_id |-> tid, type |-> type, permissions |-> perms,
     container_type |-> ctype, container_id |-> cid,
     is_void |-> void, is_destroyed |-> destroyed, system_type |-> sys,
     destination |-> dest, interactions_used_this_tick |-> 0,
     n |-> 0,          \* fields.n, the number the `add` effects count in
     fired |-> 0,      \* history: rules evaluated on the instance since the last reset
     gone |-> 0]       \* history: those of them evaluated while it was void or destroyed

NoPerms == [x \in {} |-> PRule("any")]

(* The world the model starts from: the two home nodes with their random
   links (createHomeNode), and nodes and links made by create, edit and
   delete actions:
     h1: l1 -> n1, lk -> n1 (its `travel` rule denies), lg -> n2 (n2's `enter` rule denies)
     h2: l2 -> n1
     n1 (its `exit` rule denies): lv (void), ld (destroyed), lh (no destination),
         lb (destination is no node), lx -> h1 *)
InitInstances ==
    [i \in InstanceIds |->
        CASE i = "h1" -> Row(NULL, "node", HomePermissions("a1"), NULL, NULL, 0, 0, NULL, NULL)
          [] i = "h2" -> Row(NULL, "node", HomePermissions("a2"), NULL, NULL, 0, 0, NULL, NULL)
          [] i = "p1" -> Row(NULL, "link", HomePermissions("a1"), "instance", "h1", 0, 0, "random_link", NULL)
          [] i = "p2" -> Row(NULL, "link", HomePermissions("a2"), "instance", "h2", 0, 0, "random_link", NULL)
          [] i = "n1" -> Row("tn", "node", NoPerms, NULL, NULL, 0, 0, NULL, NULL)
          [] i = "n2" -> Row("tg", "node", NoPerms, NULL, NULL, 0, 0, NULL, NULL)
          [] i = "l1" -> Row("tl", "link", NoPerms, "instance", "h1", 0, 0, NULL, "n1")
          [] i = "l2" -> Row("tl", "link", NoPerms, "instance", "h2", 0, 0, NULL, "n1")
          [] i = "lk" -> Row("tk", "link", NoPerms, "instance", "h1", 0, 0, NULL, "n1")
          [] i = "lg" -> Row("tl", "link", NoPerms, "instance", "h1", 0, 0, NULL, "n2")
          [] i = "lv" -> Row(NULL, "link", NoPerms, "instance", "n1", 1, 0, NULL, "h1")
          [] i = "ld" -> Row("tl", "link", NoPerms, "instance", "n1", 0, 1, NULL, "h1")
          [] i = "lh" -> Row("tl", "link", NoPerms, "instance", "n1", 0, 0, NULL, NULL)
          [] i = "lb" -> Row("tl", "link", NoPerms, "instance", "n1", 0, 0, NULL, "gone")
          [] i = "lx" -> Row("tl", "link", NoPerms, "instance", "n1", 0, 0, NULL, "h1")]

InitWorld ==
    [i \in WorldIds |->
        CASE i = "h1" -> Row(NULL, "node", HomePermissions("a1"), NULL, NULL, 0, 0, NULL, NULL)
          [] i = "h2" -> Row(NULL, "node", HomePermissions("a2"), NULL, NULL, 0, 0, NULL, NULL)
          [] i = "w1" -> Row("tw", "node", NoPerms, NULL, NULL, 0, 0, NULL, NULL)
          [] i = "b1" -> Row("tb", "thing", NoPerms, "instance", "w1", 0, 0, NULL, NULL)
          [] i = "x1" -> Row("tx", "thing", NoPerms, "instance", "b1", 0, 0, NULL, NULL)
          [] i = "b2" -> Row("tb", "thing", NoPerms, "instance", "w1", 0, 0, NULL, NULL)
          [] i = "g5" -> Row("t5", "thing", NoPerms, "instance", "w1", 0, 0, NULL, NULL)]

----------------------------------------------------------------------------
(* The store as one value, so that the handlers can be written as          *)
(* functions from store to store.                                          *)

Store ==
    [agents |-> agents, instances |-> instances, action_queue |-> action_queue,
     events |-> events, link_usage |-> link_usage, tick_number |-> tick_number,
     qseq |-> qseq, eseq |-> eseq, refunded |-> refunded,
     last_tick_at |-> last_tick_at, dropped |-> dropped, now |-> now]

(* Results of handlers: the fields of the result object the model keeps *)
Result(error, arrived_at, stopped_at) ==
    [error |-> error, arrived_at |-> arrived_at, stopped_at |-> stopped_at]
Err(msg) == Result(msg, NULL, NULL)
Ok(what) == Result(NULL, what, NULL)

(* Event data: action_result {action, action_id, result}; others {message} *)
ResultData(action, action_id, result) ==
    [action |-> action, action_id |-> action_id, result |-> result, message |-> NULL]
MessageData(message) ==
    [action |-> NULL, action_id |-> 0, result |-> Ok(NULL), message |-> message]

addEvent(S, agentId, type, data) ==
    [S EXCEPT !.eseq = @ + 1,
              !.events = Append(@, [id |-> S.eseq + 1, agent_id |-> agentId,
                                    type |-> type, data |-> data])]

RECURSIVE BroadcastFrom(_, _, _, _, _, _)
BroadcastFrom(S, k, nodeId, type, data, excludeAgentId) ==
    IF k > Len(AgentOrder) THEN S
    ELSE LET a == AgentOrder[k] IN
         IF S.agents[a].current_node_id = nodeId /\ S.agents[a].see_broadcasts = 1
            /\ a # excludeAgentId
         THEN BroadcastFrom(addEvent(S, a, type, data), k + 1, nodeId, type, data, excludeAgentId)
         ELSE BroadcastFrom(S, k + 1, nodeId, type, data, excludeAgentId)

broadcastToNode(S, nodeId, type, data, excludeAgentId) ==
    BroadcastFrom(S, 1, nodeId, type, data, excludeAgentId)

refundAp(S, a, amount) ==
    IF amount > 0
    THEN [S EXCEPT !.agents[a].ap = @ + amount, !.refunded[a] = @ + amount]
    ELSE S

enqueueAction(S, agentId, action, params, tickNumber) ==
    [S EXCEPT !.qseq = @ + 1,
              !.action_queue = Append(@, [id |-> S.qseq + 1, agent_id |-> agentId,
                                          action |-> action, params |-> params,
                                          tick_number |-> tickNumber])]

recordLinkUsage(S, agentId, linkId, destinationId) ==
    [S EXCEPT !.link_usage = Append(@, [agent_id |-> agentId, link_id |-> linkId,
                                        destination_id |-> destinationId])]

----------------------------------------------------------------------------
(* Permissions *)

(* SELECT ... FROM templates WHERE id = ? finds a row *)
HasTemplate(S, templateId) ==
    templateId # NULL /\ templateId \in TemplateIds /\ templateId \notin S.dropped

getInstancePermissionNoDefault(S, id, key) ==
    LET inst == S.instances[id] IN
    IF key \in DOMAIN inst.permissions THEN inst.permissions[key]
    ELSE PRule("owner")

getInstancePermission(S, id, key) ==
    LET inst == S.instances[id] IN
    IF key \in DOMAIN inst.permissions THEN inst.permissions[key]
    ELSE IF HasTemplate(S, inst.template_id)
              /\ key \in DOMAIN templates[inst.template_id].default_permissions
         THEN templates[inst.template_id].default_permissions[key]
         ELSE PRule("owner")

getTemplateOwner(S, id) ==
    LET inst == S.instances[id] IN
    IF HasTemplate(S, inst.template_id) THEN templates[inst.template_id].owner_id ELSE NULL

(* evaluateRule reads agent.id, agent.current_node_id or agent.username for the
   rules owner, node and list: with agent undefined these reads throw. *)
RuleThrows(rule, agent) ==
    agent = NULL /\ rule.kind \in {"owner", "node", "list"}

(* getContainingNode: the node an instance is in, "null" when its chain of
   containers ends elsewhere.  The function recurses once per container: on
   a chain that never ends it overflows the stack ("throw"). *)
RECURSIVE ContainingNode(_, _, _)
ContainingNode(S, id, fuel) ==
    IF S.instances[id].type = "node" THEN id
    ELSE IF S.instances[id].container_type = "instance"
            /\ S.instances[id].container_id \in DOMAIN S.instances
    THEN IF fuel = 0 THEN "throw"
         ELSE ContainingNode(S, S.instances[id].container_id, fuel - 1)
    ELSE NULL

getContainingNode(S, id) == ContainingNode(S, id, Cardinality(DOMAIN S.instances))

RECURSIVE checkContainmentDepth(_, _, _)
checkContainmentDepth(S, containerId, currentDepth) ==
    IF currentDepth >= MAX_CONTAINMENT_DEPTH THEN FALSE
    ELSE IF containerId \notin DOMAIN S.instances THEN TRUE
    ELSE IF S.instances[containerId].container_type = "instance"
            /\ S.instances[containerId].container_id # NULL
    THEN checkContainmentDepth(S, S.instances[containerId].container_id, currentDepth + 1)
    ELSE TRUE

evaluateRule(S, rule, agent, id) ==
    CASE rule.kind = "any" -> TRUE
      [] rule.kind = "none" -> FALSE
      [] rule.kind = "owner" -> getTemplateOwner(S, id) = agent
      [] rule.kind = "node" -> getContainingNode(S, id) \notin {NULL, "throw"}
                               /\ S.agents[agent].current_node_id = getContainingNode(S, id)
      [] rule.kind = "list" -> username[agent] \in rule.names
      [] OTHER -> FALSE

----------------------------------------------------------------------------
(* Interaction rules *)

checkPermission(S, agent, id, key) ==
    evaluateRule(S, getInstancePermission(S, id, key), agent, id)

(* The context of fireInteractions: the instance (`inst` is the caller's
   snapshot of its row), the actor (an agent id or "null"), the subject (an
   instance id or "null") and the template read when the call began *)
Ctx(id, inst, actor, subject) ==
    [id |-> id, inst |-> inst, actor |-> actor, subject |-> subject,
     tpl |-> inst.template_id]

(* What an effect leaves: the store, whether it denied, whether it threw,
   and ctx.self, the row of the instance as the context holds it *)
Eok(S, self) == [S |-> S, denied |-> FALSE, threw |-> FALSE, self |-> self]

(* resolveRef for the references self, actor, subject and container *)
resolveRef(S, ctx, ref) ==
    CASE ref = "self" -> ctx.id
      [] ref = "actor" -> ctx.actor
      [] ref = "subject" -> ctx.subject
      [] ref = "container" ->
            IF ctx.inst.container_type = "instance"
               /\ ctx.inst.container_id \in DOMAIN S.instances
            THEN ctx.inst.container_id ELSE NULL
      \* self.<field>: the row of self is read again, the value of the field
      [] ref = "self.destination" -> S.instances[ctx.id].destination
      [] OTHER -> NULL

(* The instance whose field n the references self.n, subject.n and
   container.n read, "null" when they resolve to undefined *)
FieldHolder(S, ctx, ref) ==
    CASE ref = "self.n" -> IF ctx.id \in DOMAIN S.instances THEN ctx.id ELSE NULL
      [] ref = "subject.n" ->
            IF ctx.subject \in DOMAIN S.instances THEN ctx.subject ELSE NULL
      [] ref = "container.n" -> resolveRef(S, ctx, "container")
      [] OTHER -> NULL

(* resolveSelfRef with a field re-reads the row of self into ctx.self *)
Refreshed(S, ctx, ref) ==
    IF ref = "self.n" /\ ctx.id \in DOMAIN S.instances
    THEN S.instances[ctx.id] ELSE ctx.inst

(* evaluateCondition for the comparisons of a number field *)
evaluateCondition(S, ctx, c) ==
    IF FieldHolder(S, ctx, c.ref) = NULL THEN c.op = "neq"
    ELSE CASE c.op = "eq" -> S.instances[FieldHolder(S, ctx, c.ref)].n = c.value
           [] c.op = "neq" -> S.instances[FieldHolder(S, ctx, c.ref)].n # c.value
           [] c.op = "gt" -> S.instances[FieldHolder(S, ctx, c.ref)].n > c.value
           [] c.op = "lt" -> S.instances[FieldHolder(S, ctx, c.ref)].n < c.value
           [] OTHER -> FALSE

evaluateConditions(S, ctx, conditions) ==
    \A k \in 1..Len(conditions) : evaluateCondition(S, ctx, conditions[k])

(* ctx.self after evaluateConditions: the first condition is always read *)
ConditionsRead(S, ctx, conditions) ==
    IF Len(conditions) = 0 THEN ctx.inst ELSE Refreshed(S, ctx, conditions[1].ref)

checkEffectPermissionOpen(S, ctx, targetId, permKey) == TRUE

(* Effects on other instances go by the permissions of the template owner *)
checkEffectPermission(S, ctx, targetId, permKey) ==
    IF targetId = ctx.id THEN TRUE
    ELSE IF templates[ctx.tpl].owner_id \notin Agents THEN FALSE
    ELSE IF targetId \notin DOMAIN S.instances THEN FALSE
    ELSE checkPermission(S, templates[ctx.tpl].owner_id, targetId, permKey)

Rank(id) == CHOOSE k \in 1..Len(InstanceOrder) : InstanceOrder[k] = id

(* The row a SELECT ... LIMIT 1 returns: the oldest of the matching rows *)
First(ids) == CHOOSE i \in ids : \A j \in ids : Rank(i) <= Rank(j)

(* Live instances of a template directly in a container *)
Matches(S, templateId, containerType, containerId) ==
    {i \in DOMAIN S.instances :
        /\ S.instances[i].template_id = templateId
        /\ S.instances[i].container_type = containerType
        /\ S.instances[i].container_id = containerId
        /\ S.instances[i].is_void = 0
        /\ S.instances[i].is_destroyed = 0}

Contain(S, id, containerType, containerId) ==
    [S EXCEPT !.instances[id].container_type = containerType,
              !.instances[id].container_id = containerId]

(* The id of the next instance to be created *)
FreshId(S) ==
    FreshIds[CHOOSE k \in 1..Len(FreshIds) :
                /\ FreshIds[k] \notin DOMAIN S.instances
                /\ \A j \in 1..(k - 1) : FreshIds[j] \in DOMAIN S.instances]

InsertInstance(S, row) ==
    [S EXCEPT !.instances = @ @@ (FreshId(S) :> row)]

(* setRef(ref, value) for the field n: self is written unchecked; subject
   and container need the edit permission of the template owner.  The
   container is ctx.self.container_id, whatever its container_type. *)
setRef(S, ctx, ref, value) ==
    CASE ref = "self.n" ->
            IF ctx.id \in DOMAIN S.instances
            THEN [S EXCEPT !.instances[ctx.id].n = value] ELSE S
      [] ref = "subject.n" /\ ctx.subject # NULL ->
            IF checkEffectPermission(S, ctx, ctx.subject, "edit")
               /\ ctx.subject \in DOMAIN S.instances
            THEN [S EXCEPT !.instances[ctx.subject].n = value] ELSE S
      [] ref = "container.n" ->
            IF ctx.inst.container_id # NULL
               /\ checkEffectPermission(S, ctx, ctx.inst.container_id, "edit")
               /\ ctx.inst.container_id \in DOMAIN S.instances
            THEN [S EXCEPT !.instances[ctx.inst.container_id].n = value] ELSE S
      [] OTHER -> S

(* ["add", ref, amount]: the current value is resolveRef(ref), 0 when that
   is no number; setRef writes the sum *)
EffectAdd(S, ctx, ref, amount) ==
    setRef(S, [ctx EXCEPT !.inst = Refreshed(S, ctx, ref)], ref,
           (IF FieldHolder(S, ctx, ref) = NULL THEN 0
            ELSE S.instances[FieldHolder(S, ctx, ref)].n) + amount)

EffectPermByPermsOnly(S, ctx, targetId, permKey, value) ==
    IF targetId = NULL \/ targetId \notin DOMAIN S.instances THEN S
    ELSE IF targetId # ctx.id /\ ~checkEffectPermission(S, ctx, targetId, "perms") THEN S
    ELSE [S EXCEPT !.instances[targetId].permissions = (permKey :> value) @@ @]

(* ["perm", ref, key, rule]: on another instance the template owner must
   hold perms and the permission granted; on self nothing is checked *)
EffectPerm(S, ctx, targetId, permKey, value) ==
    IF targetId = NULL \/ targetId \notin DOMAIN S.instances THEN S
    ELSE IF targetId # ctx.id /\ ~checkEffectPermission(S, ctx, targetId, "perms") THEN S
    ELSE IF targetId # ctx.id /\ templates[ctx.tpl].owner_id \in Agents
            /\ ~checkPermission(S, templates[ctx.tpl].owner_id, targetId, permKey) THEN S
    ELSE [S EXCEPT !.instances[targetId].permissions = (permKey :> value) @@ @]

(* ["say", message]: a broadcast to the agents in the node self is in *)
EffectSay(S, ctx, message) ==
    IF getContainingNode(S, ctx.id) = NULL THEN S
    ELSE broadcastToNode(S, getContainingNode(S, ctx.id), "broadcast",
                         MessageData(message), NULL)

(* ["take", template, from]: an instance of the template moves from `from` into self *)
EffectTake(S, ctx, templateId, fromId) ==
    IF fromId = NULL THEN S
    ELSE IF fromId \notin Agents /\ ~checkEffectPermission(S, ctx, fromId, "contain") THEN S
    ELSE IF Matches(S, templateId, IF fromId \in Agents THEN "agent" ELSE "instance", fromId) = {}
    THEN S
    ELSE Contain(S, First(Matches(S, templateId,
                                  IF fromId \in Agents THEN "agent" ELSE "instance", fromId)),
                 "instance", ctx.id)

(* ["give", template, to]: an instance of the template moves from self to `to` *)
EffectGive(S, ctx, templateId, toId) ==
    IF toId = NULL THEN S
    ELSE IF toId \notin Agents /\ ~checkEffectPermission(S, ctx, toId, "contain") THEN S
    ELSE IF Matches(S, templateId, "instance", ctx.id) = {} THEN S
    ELSE Contain(S, First(Matches(S, templateId, "instance", ctx.id)),
                 IF toId \in Agents THEN "agent" ELSE "instance", toId)

(* ["move", ref, dest]: an agent goes to the node, an instance into `nodeId` *)
EffectMove(S, ctx, targetId, nodeId) ==
    IF targetId = NULL THEN S
    ELSE IF targetId # ctx.id /\ targetId \notin Agents
            /\ ~checkEffectPermission(S, ctx, targetId, "contain") THEN S
    ELSE IF targetId \in Agents
    THEN IF nodeId \in DOMAIN S.instances /\ S.instances[nodeId].type = "node"
            /\ S.instances[nodeId].is_void = 0 /\ S.instances[nodeId].is_destroyed = 0
         THEN addEvent([S EXCEPT !.agents[targetId].current_node_id = nodeId],
                       targetId, "system", MessageData("You have been moved."))
         ELSE S
    ELSE IF targetId \in DOMAIN S.instances
    THEN Contain(S, targetId, "instance", nodeId)
    ELSE S

(* ["create", template, at]: a new instance of the template in `at` *)
EffectCreate(S, ctx, templateId, containerId) ==
    IF containerId = NULL THEN S
    ELSE IF ~HasTemplate(S, templateId) THEN S
    ELSE InsertInstance(S, Row(templateId, templates[templateId].type, NoPerms,
                               IF containerId \in Agents THEN "agent" ELSE "instance",
                               containerId, 0, 0, NULL, NULL))

(* ["destroy", ref] *)
EffectDestroy(S, ctx, targetId) ==
    IF targetId = NULL THEN S
    ELSE IF targetId # ctx.id /\ ~checkEffectPermission(S, ctx, targetId, "delete") THEN S
    ELSE IF targetId \in DOMAIN S.instances
    THEN [S EXCEPT !.instances[targetId].is_destroyed = 1]
    ELSE S

(* The destination of a move: resolveRef(destRef) ?? destRef *)
MoveDestination(S, ctx, destRef) ==
    IF resolveRef(S, ctx, destRef) = NULL THEN destRef ELSE resolveRef(S, ctx, destRef)

(* executeEffect.  `say` interpolates its message with String.replace: a
   message that is not a string makes it throw. *)
executeEffect(S, ctx, e) ==
    CASE e.op = "deny" -> [Eok(S, ctx.inst) EXCEPT !.denied = TRUE]
      [] e.op = "say" ->
            IF "message" \in DOMAIN e /\ getContainingNode(S, ctx.id) # "throw"
            THEN Eok(EffectSay(S, ctx, e.message), ctx.inst)
            ELSE [Eok(S, ctx.inst) EXCEPT !.threw = TRUE]
      [] e.op = "add" ->
            Eok(EffectAdd(S, ctx, e.ref, e.amount),
                Refreshed(EffectAdd(S, ctx, e.ref, e.amount), ctx, e.ref))
      [] e.op = "perm" ->
            Eok(EffectPerm(S, ctx, resolveRef(S, ctx, e.ref), e.key, e.rule), ctx.inst)
      [] e.op = "take" -> Eok(EffectTake(S, ctx, e.tpl, resolveRef(S, ctx, e.ref)), ctx.inst)
      [] e.op = "give" -> Eok(EffectGive(S, ctx, e.tpl, resolveRef(S, ctx, e.ref)), ctx.inst)
      [] e.op = "move" -> Eok(EffectMove(S, ctx, resolveRef(S, ctx, e.ref),
                                         MoveDestination(S, ctx, e.dest)), ctx.inst)
      [] e.op = "create" -> Eok(EffectCreate(S, ctx, e.tpl, resolveRef(S, ctx, e.ref)),
                                ctx.inst)
      [] e.op = "destroy" -> Eok(EffectDestroy(S, ctx, resolveRef(S, ctx, e.ref)), ctx.inst)
      [] OTHER -> Eok(S, ctx.inst)

(* executeEffects: the effects of a rule in order, until one denies.  The
   context (ctx.self, ctx.denied) is one object for all the rules. *)
RECURSIVE EffectsFrom(_, _, _, _)

EffectsStepDenyLost(E, denied, ctx, effects, k) ==
    IF E.threw THEN E
    ELSE EffectsFrom([E EXCEPT !.denied = denied], [ctx EXCEPT !.inst = E.self],
                     effects, k + 1)

EffectsStep(E, denied, ctx, effects, k) ==
    IF E.threw THEN E
    ELSE EffectsFrom([E EXCEPT !.denied = denied \/ E.denied],
                     [ctx EXCEPT !.inst = E.self], effects, k + 1)

isConditionalBlock(entry) == "do" \in DOMAIN entry

(* One entry of the list: an effect, or a conditional block whose `do` or
   `else` list is run by executeEffects in the same context *)
EntryDone(S, ctx, entry) ==
    IF ~isConditionalBlock(entry) THEN executeEffect(S, ctx, entry)
    ELSE IF evaluateConditions(S, ctx, entry.if)
    THEN EffectsFrom(Eok(S, ConditionsRead(S, ctx, entry.if)),
                     [ctx EXCEPT !.inst = ConditionsRead(S, ctx, entry.if)], entry.do, 1)
    ELSE EffectsFrom(Eok(S, ConditionsRead(S, ctx, entry.if)),
                     [ctx EXCEPT !.inst = ConditionsRead(S, ctx, entry.if)], entry.else, 1)

EffectsFrom(E, ctx, effects, k) ==
    IF k > Len(effects) \/ E.denied THEN E
    ELSE EffectsStep(EntryDone(E.S, ctx, effects[k]), E.denied, ctx, effects, k)

executeEffects(S, ctx, effects) == EffectsFrom(Eok(S, ctx.inst), ctx, effects, 1)

(* The effects of a rule: `do` when its conditions hold (a rule without
   `if` has none), else `else` *)
RuleEffects(S, ctx, interaction) ==
    IF "if" \notin DOMAIN interaction THEN interaction.do
    ELSE IF evaluateConditions(S, ctx, interaction.if) THEN interaction.do
    ELSE interaction.else

RuleContext(S, ctx, interaction) ==
    IF "if" \notin DOMAIN interaction THEN ctx
    ELSE [ctx EXCEPT !.inst = ConditionsRead(S, ctx, interaction.if)]

(* History: one more rule evaluated on the instance *)
Fired(S, id) ==
    [S EXCEPT !.instances[id].fired = @ + 1,
              !.instances[id].gone =
                  IF S.instances[id].is_void = 1 \/ S.instances[id].is_destroyed = 1
                  THEN @ + 1 ELSE @]

(* The loop of fireInteractions over the matching rules *)
RECURSIVE FireLoop(_, _, _, _, _)

(* UPDATE instances SET interactions_used_this_tick = ? WHERE id = ? *)
SetUsed(S, id, usedThisTick) ==
    [S EXCEPT !.instances[id].interactions_used_this_tick = usedThisTick]

(* after the effects of rule k: a throw leaves fireInteractions at once,
   otherwise the counter is incremented and written *)
FireStep(E, ctx, matching, k, usedThisTick) ==
    IF E.threw THEN E
    ELSE FireLoop([S |-> SetUsed(E.S, ctx.id, usedThisTick + 1), denied |-> E.denied,
                   threw |-> FALSE, self |-> E.self],
                  [ctx EXCEPT !.inst = E.self], matching, k + 1, usedThisTick + 1)

FireLoop(E, ctx, matching, k, usedThisTick) ==
    IF k > Len(matching) \/ usedThisTick >= MAX_INTERACTIONS_PER_TICK \/ E.denied
    THEN E
    ELSE FireStep(executeEffects(Fired(E.S, ctx.id), RuleContext(E.S, ctx, matching[k]),
                                 RuleEffects(E.S, ctx, matching[k])),
                  ctx, matching, k, usedThisTick)

(* fireInteractions(instance, verb, actor, subject): `inst` is the caller's
   snapshot of the row; the counter is re-read from the store. *)
fireInteractions(S, id, inst, verb, actor, subject) ==
    IF inst.is_void = 1 \/ inst.is_destroyed = 1 \/ ~HasTemplate(S, inst.template_id)
    THEN Eok(S, inst)
    ELSE IF Len(SelectSeq(templates[inst.template_id].interactions,
                          LAMBDA r : r.on = verb)) = 0
    THEN Eok(S, inst)
    ELSE FireLoop(Eok(S, inst), Ctx(id, inst, actor, subject),
                  SelectSeq(templates[inst.template_id].interactions, LAMBDA r : r.on = verb),
                  1, S.instances[id].interactions_used_this_tick)

----------------------------------------------------------------------------
(* Request bodies.  A body is JSON null or an object; of an object the     *)
(* model keeps `via` (absent, one link id, or an array of link ids) and    *)
(* whether `message` is a non-empty string.                                *)

Via(kind, ids) == [kind |-> kind, ids |-> ids]
(* `changes` of an edit: whether the body has it, and its `permissions`
   (a partial map from keys to rules) when it has that key *)
Changes(given, has_permissions, permissions) ==
    [given |-> given, has_permissions |-> has_permissions, permissions |-> permissions]
NoChanges == Changes(FALSE, FALSE, NoPerms)
Body(isnull, via, message) ==
    [isnull |-> isnull, via |-> via, message |-> message, count |-> 0,
     type |-> NULL, template_id |-> NULL, container_id |-> NULL,
     target_id |-> NULL, into |-> NULL, subject_id |-> NULL,
     target_type |-> NULL, changes |-> NoChanges]
NullBody == Body(TRUE, Via("absent", <<>>), FALSE)
EmptyBody == Body(FALSE, Via("absent", <<>>), FALSE)
SayBody == Body(FALSE, Via("absent", <<>>), TRUE)
TravelBody(via) == Body(FALSE, via, FALSE)
CountBody(c) == [EmptyBody EXCEPT !.count = c]

(* Outcome of a queued handler: the store it leaves, its return value, and
   whether it threw instead of returning. *)
Done(S, result) == [S |-> S, result |-> result, threw |-> FALSE]
Threw(S) == [S |-> S, result |-> Err("thrown"), threw |-> TRUE]

----------------------------------------------------------------------------
(* Queued handlers *)

(* The rows of a SELECT without ORDER BY come in the order of insertion *)
Rows(ids) == SelectSeq(InstanceOrder, LAMBDA i : i \in ids)

(* The first node of `order` that passes the filters, "null" when none
   does, "throw" when evaluateRule throws first. *)
RECURSIVE RandomPick(_, _, _, _, _)

RandomPickWithHomes(S, order, k, excludeNodeId, agent) ==
    IF k > Len(order) THEN NULL
    ELSE LET n == order[k]
             row == S.instances[n]
             candidate == row.type = "node" /\ row.is_void = 0 /\ row.is_destroyed = 0
                          /\ n # excludeNodeId
             rule == getInstancePermission(S, n, "interact")
         IN IF ~candidate THEN RandomPick(S, order, k + 1, excludeNodeId, agent)
            ELSE IF RuleThrows(rule, agent) THEN "throw"
            ELSE IF evaluateRule(S, rule, agent, n) THEN n
            ELSE RandomPick(S, order, k + 1, excludeNodeId, agent)

RandomPick(S, order, k, excludeNodeId, agent) ==
    IF k > Len(order) THEN NULL
    ELSE LET n == order[k]
             row == S.instances[n]
             candidate == row.type = "node" /\ row.is_void = 0 /\ row.is_destroyed = 0
                          /\ n # excludeNodeId
                          /\ \A a \in Agents : home_node_id[a] # n
             rule == getInstancePermission(S, n, "interact")
         IN IF ~candidate THEN RandomPick(S, order, k + 1, excludeNodeId, agent)
            ELSE IF RuleThrows(rule, agent) THEN "throw"
            ELSE IF evaluateRule(S, rule, agent, n) THEN n
            ELSE RandomPick(S, order, k + 1, excludeNodeId, agent)

getRandomDestination(S, order, excludeNodeId, agent) ==
    RandomPick(S, order, 1, excludeNodeId, agent)

generateTravelEvents(S, a, fromNodeId, toNodeId) ==
    broadcastToNode(
        broadcastToNode(S, fromNodeId, "broadcast", MessageData("left"), a),
        toNodeId, "broadcast", MessageData("arrived"), a)

(* Variant: the failing hop is counted as used *)
ValidationRefundUsed(n, i) == n - i - 1

ValidationRefund(n, i) == n - i
DenyRefund(n, i) == n - i - 1

(* The loop of processTravel, one operator per stage of an iteration; i is
   the 0-based hop index.  Each stage takes what the stages before computed. *)
RECURSIVE TravelLoop(_, _, _, _, _, _)

(* the move, and the next iteration *)
HopMove(S, a, linkIds, i, fromNodeId, order, linkId, destinationId) ==
    TravelLoop(generateTravelEvents(
                   [recordLinkUsage(S, a, linkId, destinationId)
                       EXCEPT !.agents[a].current_node_id = destinationId],
                   a, fromNodeId, destinationId),
               a, linkIds, i + 1, destinationId, order)

(* after `enter` fired on the destination node *)
HopEntered(f3, a, linkIds, i, currentNodeId, order, linkId, destinationId) ==
    IF f3.threw THEN Threw(f3.S)
    ELSE IF f3.denied
    THEN Done(refundAp(f3.S, a, DenyRefund(Len(linkIds), i)),
              Result("entry denied by destination node", NULL, currentNodeId))
    ELSE HopMove(f3.S, a, linkIds, i, currentNodeId, order, linkId, destinationId)

HopExitedOpen(f2, a, linkIds, i, currentNodeId, order, linkId, destinationId, destNode) ==
    IF f2.threw THEN Threw(f2.S)
    ELSE HopEntered(fireInteractions(f2.S, destinationId, destNode, "enter", a, NULL),
                    a, linkIds, i, currentNodeId, order, linkId, destinationId)

(* after `exit` fired on the departing node *)
HopExited(f2, a, linkIds, i, currentNodeId, order, linkId, destinationId, destNode) ==
    IF f2.threw THEN Threw(f2.S)
    ELSE IF f2.denied
    THEN Done(refundAp(f2.S, a, DenyRefund(Len(linkIds), i)),
              Result("exit denied by node", NULL, currentNodeId))
    ELSE HopEntered(fireInteractions(f2.S, destinationId, destNode, "enter", a, NULL),
                    a, linkIds, i, currentNodeId, order, linkId, destinationId)

(* after `travel` fired on the link *)
HopTravelled(f1, a, linkIds, i, currentNodeId, order, linkId, destinationId, destNode) ==
    IF f1.threw THEN Threw(f1.S)
    ELSE IF f1.denied
    THEN Done(refundAp(f1.S, a, DenyRefund(Len(linkIds), i)),
              Result("travel denied", NULL, currentNodeId))
    ELSE HopExited(IF currentNodeId \in DOMAIN f1.S.instances
                   THEN fireInteractions(f1.S, currentNodeId, f1.S.instances[currentNodeId],
                                         "exit", a, NULL)
                   ELSE Eok(f1.S, NULL),
                   a, linkIds, i, currentNodeId, order, linkId, destinationId, destNode)

(* once the destination of the link is known *)
HopDestination(S, a, linkIds, i, currentNodeId, order, linkId, link, destinationId) ==
    IF destinationId = "throw" THEN Threw(S)
    ELSE IF destinationId = NULL
    THEN Done(refundAp(S, a, ValidationRefund(Len(linkIds), i)),
              Err(IF link.system_type = "random_link"
                  THEN "no available destinations" ELSE "link has no destination"))
    ELSE IF ~(destinationId \in DOMAIN S.instances /\ S.instances[destinationId].type = "node"
              /\ S.instances[destinationId].is_void = 0
              /\ S.instances[destinationId].is_destroyed = 0)
    THEN Done(refundAp(S, a, ValidationRefund(Len(linkIds), i)),
              Err("destination node not found or is void"))
    ELSE HopTravelled(fireInteractions(S, linkId, link, "travel", a, NULL),
                      a, linkIds, i, currentNodeId, order, linkId, destinationId,
                      S.instances[destinationId])

(* once the row of the link is loaded *)
HopLink(S, a, linkIds, i, currentNodeId, order, linkId, found, link) ==
    IF ~found \/ link.is_void = 1 \/ link.is_destroyed = 1
    THEN Done(refundAp(S, a, ValidationRefund(Len(linkIds), i)),
              Err("link not found or is void"))
    ELSE IF link.container_type # "instance" \/ link.container_id # currentNodeId
    THEN Done(refundAp(S, a, ValidationRefund(Len(linkIds), i)),
              Err("link is not in your current node"))
    ELSE HopDestination(S, a, linkIds, i, currentNodeId, order, linkId, link,
                        IF link.system_type = "random_link"
                        THEN getRandomDestination(S, order, currentNodeId, NULL)  \* called without the agent
                        ELSE link.destination)

TravelLoop(S, a, linkIds, i, currentNodeId, order) ==
    IF i >= Len(linkIds) THEN Done(S, Ok(currentNodeId))
    ELSE HopLink(S, a, linkIds, i, currentNodeId, order, linkIds[i + 1],
                 linkIds[i + 1] \in DOMAIN S.instances
                    /\ S.instances[linkIds[i + 1]].type = "link",
                 S.instances[linkIds[i + 1]])

(* processTravel(agent, params): `agent` is the row loaded by processTick *)
processTravel(S, a, agent, params, order) ==
    IF params.isnull THEN Threw(S)
    ELSE IF params.via.kind = "absent"
    THEN Done(S, Err("via required"))
    ELSE IF Len(params.via.ids) = 0
    THEN Done(S, Err("via must not be empty"))
    ELSE TravelLoop(S, a, params.via.ids, 0, agent.current_node_id, order)

processHome(S, a, agent) ==
    IF agent.current_node_id = home_node_id[a]
    THEN Done(S, Err("you are already home"))
    ELSE Done(generateTravelEvents(
                  [S EXCEPT !.agents[a].current_node_id = home_node_id[a]],
                  a, agent.current_node_id, home_node_id[a]),
              Ok(home_node_id[a]))

(* createInstance(agent, params): a node is top-level; another instance
   goes into params.container_id or, by default, the agent's current node *)
createInstance(S, a, agent, params) ==
    IF params.template_id = NULL THEN Done(S, Err("template_id required"))
    ELSE IF ~HasTemplate(S, params.template_id) THEN Done(S, Err("template not found"))
    ELSE IF templates[params.template_id].owner_id # a
    THEN Done(S, Err("you don't own this template"))
    ELSE IF templates[params.template_id].type = "node"
    THEN Done(InsertInstance(S, Row(params.template_id, "node", NoPerms,
                                    NULL, NULL, 0, 0, NULL, NULL)),
              Ok(FreshId(S)))
    ELSE IF params.container_id # NULL
    THEN IF params.container_id \notin DOMAIN S.instances
         THEN Done(S, Err("container not found"))
         ELSE IF S.instances[params.container_id].is_void = 1
                 \/ S.instances[params.container_id].is_destroyed = 1
         THEN Done(S, Err("container not found"))
         ELSE IF ~checkPermission(S, a, params.container_id, "contain")
         THEN Done(S, Err("no contain permission on target container"))
         ELSE IF ~checkContainmentDepth(S, params.container_id, 0)
         THEN Done(S, Err("containment depth exceeded"))
         ELSE Done(InsertInstance(S, Row(params.template_id,
                                         templates[params.template_id].type, NoPerms,
                                         "instance", params.container_id, 0, 0, NULL, NULL)),
                   Ok(FreshId(S)))
    ELSE Done(InsertInstance(S, Row(params.template_id,
                                    templates[params.template_id].type, NoPerms,
                                    "instance", agent.current_node_id, 0, 0, NULL, NULL)),
              Ok(FreshId(S)))

(* processCreate(agent, params): null makes the destructuring throw; the
   bodies of the input sets have type "instance" or none. *)
processCreate(S, a, agent, params) ==
    IF params.isnull THEN Threw(S)
    ELSE IF params.type = "instance" THEN createInstance(S, a, agent, params)
    ELSE Done(S, Err("type must be 'template' or 'instance'"))

(* handleVoidCascade(instance): the agents in a node go home with a system
   event; the contained instances not yet destroyed are destroyed, each
   followed by its own cascade. *)
RECURSIVE SendHome(_, _, _)
SendHome(S, k, nodeId) ==
    IF k > Len(AgentOrder) THEN S
    ELSE IF S.agents[AgentOrder[k]].current_node_id = nodeId
    THEN SendHome(addEvent([S EXCEPT !.agents[AgentOrder[k]].current_node_id =
                                         home_node_id[AgentOrder[k]]],
                           AgentOrder[k], "system", MessageData("destroyed")),
                  k + 1, nodeId)
    ELSE SendHome(S, k + 1, nodeId)

RECURSIVE handleVoidCascade(_, _, _)
RECURSIVE CascadeItems(_, _, _)

CascadeItems(S, contained, k) ==
    IF k > Len(contained) THEN S
    ELSE CascadeItems(handleVoidCascade([S EXCEPT !.instances[contained[k]].is_destroyed = 1],
                                        contained[k], S.instances[contained[k]].type),
                      contained, k + 1)

handleVoidCascade(S, id, type) ==
    CascadeItems(IF type = "node" THEN SendHome(S, 1, id) ELSE S,
                 Rows({i \in DOMAIN S.instances :
                          /\ S.instances[i].container_type = "instance"
                          /\ S.instances[i].container_id = id
                          /\ S.instances[i].is_destroyed = 0}),
                 1)

deleteInstance(S, id) ==
    handleVoidCascade([S EXCEPT !.instances[id].is_destroyed = 1], id, S.instances[id].type)

(* deleteTemplate: each instance of the template that is not void is made
   void and loses its template, then comes its cascade; last the row of the
   template is deleted *)
RECURSIVE VoidInstances(_, _, _)
VoidInstances(S, rows, k) ==
    IF k > Len(rows) THEN S
    ELSE VoidInstances(handleVoidCascade([S EXCEPT !.instances[rows[k]].is_void = 1,
                                                   !.instances[rows[k]].template_id = NULL],
                                         rows[k], S.instances[rows[k]].type),
                       rows, k + 1)

deleteTemplate(S, templateId) ==
    [VoidInstances(S, Rows({i \in DOMAIN S.instances :
                               /\ S.instances[i].template_id = templateId
                               /\ S.instances[i].is_void = 0}), 1)
        EXCEPT !.dropped = @ \cup {templateId}]

(* processDelete(agent, params): the target is a template or an instance *)
processDelete(S, a, params) ==
    IF params.isnull THEN Threw(S)
    ELSE IF params.target_id = NULL THEN Done(S, Err("target_id required"))
    ELSE IF HasTemplate(S, params.target_id)
    THEN IF templates[params.target_id].owner_id # a
         THEN Done(S, Err("you don't own this template"))
         ELSE Done(deleteTemplate(S, params.target_id), Ok(params.target_id))
    ELSE IF params.target_id \notin DOMAIN S.instances THEN Done(S, Err("target not found"))
    ELSE IF S.instances[params.target_id].is_destroyed = 1
    THEN Done(S, Err("target not found"))
    ELSE IF ~checkPermission(S, a, params.target_id, "delete")
    THEN Done(S, Err("no delete permission"))
    ELSE Done(deleteInstance(S, params.target_id), Ok(params.target_id))

(* A thing the queries of take and drop find: a row of type thing that is
   neither void nor destroyed *)
FoundThing(S, id) ==
    /\ id \in DOMAIN S.instances
    /\ S.instances[id].type = "thing"
    /\ S.instances[id].is_void = 0
    /\ S.instances[id].is_destroyed = 0

(* processTake, after the take verb fired with outcome F *)
Taken(F, a, agent, params) ==
    IF F.threw THEN Threw(F.S)
    ELSE IF F.denied THEN Done(F.S, Err("take denied by interaction"))
    ELSE IF params.into # NULL
    THEN IF ~FoundThing(F.S, params.into)
         THEN Done(F.S, Err("destination container not found"))
         ELSE IF F.S.instances[params.into].container_type # "agent"
                 \/ F.S.instances[params.into].container_id # a
         THEN Done(F.S, Err("destination must be in your inventory"))
         ELSE IF ~checkPermission(F.S, a, params.into, "contain")
         THEN Done(F.S, Err("no contain permission on destination"))
         ELSE IF ~checkContainmentDepth(F.S, params.into, 0)
         THEN Done(F.S, Err("containment depth exceeded"))
         ELSE Done(broadcastToNode(Contain(F.S, params.target_id, "instance", params.into),
                                   agent.current_node_id, "broadcast",
                                   MessageData("takes"), a),
                   Ok(params.target_id))
    ELSE Done(broadcastToNode(Contain(F.S, params.target_id, "agent", a),
                              agent.current_node_id, "broadcast", MessageData("takes"), a),
              Ok(params.target_id))

(* processTake(agent, params) *)
processTake(S, a, agent, params) ==
    IF params.isnull THEN Threw(S)
    ELSE IF params.target_id = NULL THEN Done(S, Err("target_id required"))
    ELSE IF ~FoundThing(S, params.target_id)
    THEN Done(S, Err("thing not found or is void"))
    ELSE IF getContainingNode(S, params.target_id) = "throw" THEN Threw(S)
    ELSE IF getContainingNode(S, params.target_id) # agent.current_node_id
    THEN Done(S, Err("thing is not in your current node"))
    ELSE IF ~checkPermission(S, a, params.target_id, "contain")
    THEN Done(S, Err("no contain permission on thing"))
    ELSE IF S.instances[params.target_id].container_type = "instance"
            /\ S.instances[params.target_id].container_id \in DOMAIN S.instances
            /\ ~checkPermission(S, a, S.instances[params.target_id].container_id, "contain")
    THEN Done(S, Err("no contain permission on container"))
    ELSE Taken(fireInteractions(S, params.target_id, S.instances[params.target_id], "take", a, NULL),
               a, agent, params)

(* isInAgentInventory: up the containers to an agent; "throw" when the
   recursion never ends *)
RECURSIVE InInventory(_, _, _, _)
InInventory(S, id, agentId, fuel) ==
    IF S.instances[id].container_type = "agent" /\ S.instances[id].container_id = agentId
    THEN "yes"
    ELSE IF S.instances[id].container_type = "instance"
            /\ S.instances[id].container_id \in DOMAIN S.instances
    THEN IF fuel = 0 THEN "throw"
         ELSE InInventory(S, S.instances[id].container_id, agentId, fuel - 1)
    ELSE "no"

isInAgentInventory(S, id, agentId) ==
    InInventory(S, id, agentId, Cardinality(DOMAIN S.instances))

(* processDrop, after the drop verb fired with outcome F *)
Dropped(F, a, agent, params) ==
    IF F.threw THEN Threw(F.S)
    ELSE IF F.denied THEN Done(F.S, Err("drop denied by interaction"))
    ELSE IF params.into # NULL
    THEN IF params.into \notin DOMAIN F.S.instances
         THEN Done(F.S, Err("destination not found"))
         ELSE IF F.S.instances[params.into].is_void = 1
                 \/ F.S.instances[params.into].is_destroyed = 1
         THEN Done(F.S, Err("destination not found"))
         ELSE IF ~checkPermission(F.S, a, params.into, "contain")
         THEN Done(F.S, Err("no contain permission on destination"))
         ELSE IF getContainingNode(F.S, params.into) = "throw" THEN Threw(F.S)
         ELSE IF getContainingNode(F.S, params.into) # agent.current_node_id
         THEN Done(F.S, Err("destination not in current node"))
         ELSE IF ~checkContainmentDepth(F.S, params.into, 0)
         THEN Done(F.S, Err("containment depth exceeded"))
         ELSE Done(broadcastToNode(Contain(F.S, params.target_id, "instance", params.into),
                                   agent.current_node_id, "broadcast",
                                   MessageData("drops"), a),
                   Ok(params.target_id))
    ELSE Done(broadcastToNode(Contain(F.S, params.target_id, "instance",
                                      agent.current_node_id),
                              agent.current_node_id, "broadcast", MessageData("drops"), a),
              Ok(params.target_id))

(* processDrop(agent, params) *)
processDrop(S, a, agent, params) ==
    IF params.isnull THEN Threw(S)
    ELSE IF params.target_id = NULL THEN Done(S, Err("target_id required"))
    ELSE IF ~FoundThing(S, params.target_id)
    THEN Done(S, Err("thing not found or is void"))
    ELSE IF isInAgentInventory(S, params.target_id, a) = "throw" THEN Threw(S)
    ELSE IF isInAgentInventory(S, params.target_id, a) = "no"
    THEN Done(S, Err("thing is not in your inventory"))
    ELSE Dropped(fireInteractions(S, params.target_id, S.instances[params.target_id],
                                  "drop", a, NULL),
                 a, agent, params)

(* processCustomVerb, after the verb fired with outcome F *)
VerbFired(F, params) ==
    IF F.threw THEN Threw(F.S)
    ELSE IF F.denied THEN Done(F.S, Err("action denied by interaction"))
    ELSE Done(F.S, Ok(params.target_id))

(* Variant: the reset also brings the system instances of the home back *)
resetHomeNodeRevive(S, a) ==
    [S EXCEPT !.instances =
        [i \in DOMAIN S.instances |->
            IF i = home_node_id[a] THEN [S.instances[i] EXCEPT !.n = 0]
            ELSE IF /\ S.instances[i].container_type = "instance"
                    /\ S.instances[i].container_id = home_node_id[a]
            THEN [S.instances[i] EXCEPT
                     !.is_destroyed = IF S.instances[i].system_type = NULL THEN 1 ELSE 0]
            ELSE S.instances[i]] @@ S.instances]

(* resetHomeNode(agentId, username): the instances directly in the home
   node that have no system_type are marked destroyed, and the fields of
   the home node are emptied *)
resetHomeNode(S, a) ==
    [S EXCEPT !.instances =
        [i \in DOMAIN S.instances |->
            IF i = home_node_id[a] THEN [S.instances[i] EXCEPT !.n = 0]
            ELSE IF /\ S.instances[i].container_type = "instance"
                    /\ S.instances[i].container_id = home_node_id[a]
                    /\ S.instances[i].is_destroyed = 0
                    /\ S.instances[i].system_type = NULL
            THEN [S.instances[i] EXCEPT !.is_destroyed = 1]
            ELSE S.instances[i]] @@ S.instances]

(* processCustomVerb(agent, verb, params): null throws; `reset` on the
   home node of the agent resets it and fires nothing *)
processCustomVerb(S, a, verb, params) ==
    IF params.isnull THEN Threw(S)
    ELSE IF params.target_id = NULL THEN Done(S, Err("target_id required"))
    ELSE IF params.target_id \notin DOMAIN S.instances
    THEN Done(S, Err("target not found or is void"))
    ELSE IF S.instances[params.target_id].is_void = 1
            \/ S.instances[params.target_id].is_destroyed = 1
    THEN Done(S, Err("target not found or is void"))
    ELSE IF ~checkPermission(S, a, params.target_id, "interact")
    THEN Done(S, Err("no interact permission"))
    ELSE IF verb = "reset" /\ params.target_id = home_node_id[a]
    THEN Done(resetHomeNode(S, a), Ok("reset"))
    ELSE IF params.subject_id # NULL /\ params.subject_id \notin DOMAIN S.instances
    THEN Done(S, Err("subject not found or is void"))
    ELSE IF params.subject_id # NULL
            /\ (S.instances[params.subject_id].is_void = 1
                \/ S.instances[params.subject_id].is_destroyed = 1)
    THEN Done(S, Err("subject not found or is void"))
    ELSE VerbFired(fireInteractions(S, params.target_id, S.instances[params.target_id],
                                    verb, a, params.subject_id),
                   params)

(* editInstance(agent, instanceId, changes): of the changes the model keeps
   `permissions`, merged key by key over the overrides of the instance *)
editInstance(S, a, instanceId, changes) ==
    IF instanceId \notin DOMAIN S.instances
    THEN Done(S, Err("instance not found or is void"))
    ELSE IF S.instances[instanceId].is_void = 1 \/ S.instances[instanceId].is_destroyed = 1
    THEN Done(S, Err("instance not found or is void"))
    ELSE IF ~checkPermission(S, a, instanceId, "edit") THEN Done(S, Err("no edit permission"))
    ELSE IF ~changes.has_permissions THEN Done(S, Err("no valid changes"))
    ELSE IF ~checkPermission(S, a, instanceId, "perms") THEN Done(S, Err("no perms permission"))
    ELSE Done([S EXCEPT !.instances[instanceId].permissions = changes.permissions @@ @],
              Ok(instanceId))

(* processEdit(agent, params); the targets of the input sets are instances *)
processEdit(S, a, params) ==
    IF params.isnull THEN Threw(S)
    ELSE IF params.target_id = NULL \/ ~params.changes.given
    THEN Done(S, Err("target_id and changes required"))
    ELSE IF params.target_type = "instance"
    THEN editInstance(S, a, params.target_id, params.changes)
    ELSE Done(S, Err("target_type must be 'template' or 'instance'"))

----------------------------------------------------------------------------
(* The tick engine *)

DeleteQueueRow(S, id) ==
    [S EXCEPT !.action_queue = SelectSeq(@, LAMBDA q : q.id # id)]

(* The switch of processTick on action.action *)
Dispatch(S, action, agent, order) ==
    CASE action.action = "create" -> processCreate(S, action.agent_id, agent, action.params)
      [] action.action = "edit" -> processEdit(S, action.agent_id, action.params)
      [] action.action = "delete" -> processDelete(S, action.agent_id, action.params)
      [] action.action = "take" -> processTake(S, action.agent_id, agent, action.params)
      [] action.action = "drop" -> processDrop(S, action.agent_id, agent, action.params)
      [] action.action = "travel" -> processTravel(S, action.agent_id, agent, action.params, order)
      [] action.action = "home" -> processHome(S, action.agent_id, agent)
      [] OTHER -> processCustomVerb(S, action.agent_id, action.action, action.params)

(* What the handler's throw is turned into by the catch of processTick *)
CaughtResult(R) == IF R.threw THEN Err("action failed") ELSE R.result

LogEntry(action, agent, executed, R, S, S2) ==
    [id |-> action.id, agent_id |-> action.agent_id, action |-> action.action,
     tick_number |-> action.tick_number,
     executed |-> executed, threw |-> R.threw, result |-> R.result,
     hops |-> Len(action.params.via.ids),
     moved |-> Len(S2.link_usage) - Len(S.link_usage),
     ap_gain |-> S2.agents[action.agent_id].ap - S.agents[action.agent_id].ap,
     node_seen |-> agent.current_node_id,
     node_after |-> S2.agents[action.agent_id].current_node_id,
     target_id |-> action.params.target_id,
     nodes_before |-> [b \in Agents |-> S.agents[b].current_node_id],
     nodes_after |-> [b \in Agents |-> S2.agents[b].current_node_id],
     instances_before |-> S.instances,
     instances_after |-> S2.instances,
     via |-> action.params.via.ids,
     events_added |-> SubSeq(S2.events, Len(S.events) + 1, Len(S2.events))]

(* The end of an iteration of the loop of phase 4: the result R of the
   handler becomes an event and the row is deleted *)
DrainStore(R, action) ==
    DeleteQueueRow(addEvent(R.S, action.agent_id, "action_result",
                            ResultData(action.action, action.id, CaughtResult(R))),
                   action.id)

RECURSIVE DrainUncaught(_, _, _, _, _)

DrainedUncaught(S, actions, k, order, log, action, agent, R) ==
    IF R.threw THEN [S |-> R.S, log |-> log]
    ELSE DrainUncaught(DrainStore(R, action), actions, k + 1, order,
                       Append(log, LogEntry(action, agent, TRUE, R, S, DrainStore(R, action))))

(* Variant: no try/catch around the handler, a throw ends the loop *)
DrainUncaught(S, actions, k, order, log) ==
    IF k > Len(actions) THEN [S |-> S, log |-> log]
    ELSE IF S.agents[actions[k].agent_id].current_node_id = NULL
    THEN DrainUncaught(DeleteQueueRow(S, actions[k].id), actions, k + 1, order,
                       Append(log, LogEntry(actions[k], S.agents[actions[k].agent_id], FALSE,
                                            Done(S, Ok(NULL)), S,
                                            DeleteQueueRow(S, actions[k].id))))
    ELSE DrainedUncaught(S, actions, k, order, log, actions[k],
                         S.agents[actions[k].agent_id],
                         Dispatch(S, actions[k], S.agents[actions[k].agent_id], order))

(* Phase 4: the loop over the selected queue rows, with the per-entry log *)
RECURSIVE Drain(_, _, _, _, _)

(* an iteration once the handler has returned or thrown *)
Drained(S, actions, k, order, log, action, agent, R) ==
    Drain(DrainStore(R, action), actions, k + 1, order,
          Append(log, LogEntry(action, agent, TRUE, R, S, DrainStore(R, action))))

Drain(S, actions, k, order, log) ==
    IF k > Len(actions) THEN [S |-> S, log |-> log]
    ELSE IF S.agents[actions[k].agent_id].current_node_id = NULL
    THEN \* the agent is in limbo: the row is deleted, nothing runs
         Drain(DeleteQueueRow(S, actions[k].id), actions, k + 1, order,
               Append(log, LogEntry(actions[k], S.agents[actions[k].agent_id], FALSE,
                                    Done(S, Ok(NULL)), S,
                                    DeleteQueueRow(S, actions[k].id))))
    ELSE Drained(S, actions, k, order, log, actions[k],
                 S.agents[actions[k].agent_id],
                 Dispatch(S, actions[k], S.agents[actions[k].agent_id], order))

Reverse(q) == [k \in 1..Len(q) |-> q[Len(q) + 1 - k]]

(* Variant: the rows in descending id *)
SelectActionsDesc(S) ==
    Reverse(SelectSeq(S.action_queue, LAMBDA q : q.tick_number <= S.tick_number))

(* Variant: only the rows of earlier ticks *)
SelectActionsEarlier(S) ==
    SelectSeq(S.action_queue, LAMBDA q : q.tick_number < S.tick_number)

(* The rows phase 4 selects: tick_number <= ?, ORDER BY id *)
SelectActions(S) ==
    SelectSeq(S.action_queue, LAMBDA q : q.tick_number <= S.tick_number)

(* UPDATE instances SET interactions_used_this_tick = 0: every row of the
   table is rewritten *)
ResetRows(rows) ==
    [i \in DOMAIN rows |-> [rows[i] EXCEPT !.interactions_used_this_tick = 0,
                                           !.fired = 0, !.gone = 0]] @@ rows

(* Variant: the tick number is written twice *)
ResetCountersTwice(S) ==
    [S EXCEPT !.tick_number = @ + 2,
              !.last_tick_at = S.now,
              !.agents = [a \in Agents |-> [S.agents[a] EXCEPT !.ap = MAX_AP]],
              !.refunded = [a \in Agents |-> 0],
              !.instances = ResetRows(S.instances)]

(* Phase 1: counters *)
ResetCounters(S) ==
    [S EXCEPT !.tick_number = @ + 1,
              !.last_tick_at = S.now,
              !.agents = [a \in Agents |-> [S.agents[a] EXCEPT !.ap = MAX_AP]],
              !.refunded = [a \in Agents |-> 0],
              !.instances = ResetRows(S.instances)]

(* Phase 2: agents whose last_active_at is older than the cutoff (`idle`) *)
RECURSIVE ReapIdle(_, _, _)
ReapIdle(S, k, idle) ==
    IF k > Len(AgentOrder) THEN S
    ELSE LET a == AgentOrder[k] IN
         IF S.agents[a].current_node_id # NULL /\ a \in idle
         THEN ReapIdle(addEvent([S EXCEPT !.agents[a].current_node_id = NULL],
                                a, "system", MessageData("You drift off into a deep sleep.")),
                       k + 1, idle)
         ELSE ReapIdle(S, k + 1, idle)

(* Phase 3: the `tick` verb on the instances directly in occupied nodes.  The
   `tick` rules of the templates here only write fields of their own
   instance, so the order in which the occupied nodes are visited does not
   show. *)
RECURSIVE WorldTick(_, _, _, _)
WorldTick(S, k, occupiedNodes, snapshot) ==
    IF k > Len(InstanceOrder) THEN S
    ELSE IF InstanceOrder[k] \notin DOMAIN snapshot
    THEN WorldTick(S, k + 1, occupiedNodes, snapshot)
    ELSE LET id == InstanceOrder[k]
             inst == snapshot[id]
         IN IF inst.container_type = "instance" /\ inst.container_id \in occupiedNodes
               /\ inst.is_void = 0 /\ inst.is_destroyed = 0
            THEN WorldTick(fireInteractions(S, id, inst, "tick", NULL, NULL).S,
                           k + 1, occupiedNodes, snapshot)
            ELSE WorldTick(S, k + 1, occupiedNodes, snapshot)

(* Variant: the cutoff is the time of the tick, every row goes *)
CleanupEventsAll(S, expire) == [S EXCEPT !.events = <<>>]

(* Phase 5: rows with created_at before the cutoff; created_at grows with id,
   so these are the rows up to some id that predate this tick (`expire`). *)
CleanupEvents(S, expire) ==
    [S EXCEPT !.events = SelectSeq(@, LAMBDA e : e.id > expire)]

OccupiedNodes(S) == {S.agents[a].current_node_id : a \in Agents} \ {NULL}

Phase3(S) == WorldTick(S, 1, OccupiedNodes(S), S.instances)
Phase4(S, order) == Drain(S, SelectActions(S), 1, order, <<>>)
Phase5(D, expire) == [S |-> CleanupEvents(D.S, expire), log |-> D.log]

(* Variant: the world tick runs before the idle agents are sent to limbo *)
processTickReapLast(S, idle, order, expire) ==
    Phase5(Phase4(ReapIdle(Phase3(ResetCounters(S)), 1, idle), order), expire)

(* processTick, its try block.  idle, order and expire are what the clock and
   ORDER BY RANDOM() decide. *)
processTick(S, idle, order, expire) ==
    Phase5(Phase4(Phase3(ReapIdle(ResetCounters(S), 1, idle)), order), expire)

----------------------------------------------------------------------------
(* The response envelope *)

EventsOf(evs, a) == SelectSeq(evs, LAMBDA e : e.agent_id = a)

Prefix(q, n) == SubSeq(q, 1, IF Len(q) < n THEN Len(q) ELSE n)

(* buildResponse(agent, result): the oldest events of the agent, at most
   MAX_EVENTS_PER_RESPONSE, are selected and the agent's rows up to the last
   selected id are deleted. *)
SelectEvents(S, a) == Prefix(EventsOf(S.events, a), MAX_EVENTS_PER_RESPONSE)

(* Variant: every row of the agent is deleted *)
DeleteEventsAll(S, a, selected) ==
    IF Len(selected) > 0
    THEN [S EXCEPT !.events = SelectSeq(@, LAMBDA e : e.agent_id # a)]
    ELSE S

DeleteEvents(S, a, selected) ==
    IF Len(selected) > 0
    THEN LET maxId == selected[Len(selected)].id IN
         [S EXCEPT !.events = SelectSeq(@, LAMBDA e : ~(e.agent_id = a /\ e.id <= maxId))]
    ELSE S

buildResponse(S, a, status, verb, result) ==
    LET selected == SelectEvents(S, a)
        S2 == DeleteEvents(S, a, selected)
    IN [S |-> S2,
        resp |-> [agent |-> a, verb |-> verb, status |-> status, envelope |-> TRUE,
                  tick |-> S2.tick_number, ap |-> S2.agents[a].ap,
                  purchased_ap_this_tick |-> S2.agents[a].purchased_ap_this_tick,
                  events |-> selected, result |-> result]]

(* A response that is not built by buildResponse (the 500 of app.onError) *)
PlainResponse(a, status, verb) ==
    [agent |-> a, verb |-> verb, status |-> status, envelope |-> FALSE,
     tick |-> 0, ap |-> 0, purchased_ap_this_tick |-> 0,
     events |-> <<>>, result |-> [kind |-> "error", action_id |-> 0, tick_number |-> 0]]

Payload(kind) == [kind |-> kind, action_id |-> 0, tick_number |-> 0]
Queued(action_id, tick) == [kind |-> "queued", action_id |-> action_id, tick_number |-> tick]

----------------------------------------------------------------------------
(* State after construction: two agents signed up (ap 4, in their home     *)
(* nodes), the world built, tick_number 0, nothing queued.                 *)

NoResponse == PlainResponse(NULL, 0, NULL)
NoServe == NoResponse @@ [body |-> EmptyBody]

InitCommon ==
    /\ agents = [a \in Agents |-> [ap |-> 4, purchased_ap_this_tick |-> 0,
                                   current_node_id |-> home_node_id[a], see_broadcasts |-> 1]]
    /\ instances = InitInstances
    /\ action_queue = <<>>
    /\ link_usage = <<>>
    /\ tick_number = 0
    /\ qseq = 0
    /\ tickWaiters = {}
    /\ pc = [a \in Agents |-> "idle"]
    /\ lastResp = NoServe
    /\ hist = <<>>
    /\ recv = [a \in Agents |-> <<>>]
    /\ lastTick = <<>>
    /\ charged = [a \in Agents |-> 0]
    /\ refunded = [a \in Agents |-> 0]
    /\ expired = {}
    /\ last_tick_at = 0
    /\ dropped = {}
    /\ now = 0
    /\ tickTimer = TRUE
    /\ tickPhase = 0

Init ==
    /\ InitCommon
    /\ events = <<>>
    /\ eseq = 0

Commit(S) ==
    /\ agents' = S.agents
    /\ instances' = S.instances
    /\ action_queue' = S.action_queue
    /\ events' = S.events
    /\ link_usage' = S.link_usage
    /\ tick_number' = S.tick_number
    /\ qseq' = S.qseq
    /\ eseq' = S.eseq
    /\ refunded' = S.refunded
    /\ last_tick_at' = S.last_tick_at
    /\ dropped' = S.dropped

(* What recv keeps of a delivered event row *)
Digest(e) == [id |-> e.id, agent_id |-> e.agent_id, type |-> e.type,
              action_id |-> e.data.action_id]

Digests(evs) == [k \in 1..Len(evs) |-> Digest(evs[k])]

(* The response of a handler goes out: history *)
Serve(resp, body) ==
    /\ lastResp' = resp @@ [body |-> body]
    /\ recv' = IF resp.envelope
               THEN [recv EXCEPT ![resp.agent] = @ \o Digests(resp.events)]
               ELSE recv

(* Continuations of released /wait requests are microtasks: they run before
   any other request or timer callback. *)
NoneReleased == \A a \in Agents : pc[a] # "released"

(* Variant: processTick is an async function that awaits between its phases *)
TickYieldsAsync == TRUE

(* Whether processTick gives the thread up before it returns: it is a plain
   function without an await *)
TickYields == FALSE

(* JavaScript runs a callback to completion: a request handler starts or
   resumes only when processTick is not on the stack *)
ThreadFree == tickPhase = 0 \/ TickYields

----------------------------------------------------------------------------
(* Request handlers *)

(* app.post("/poll") *)
Poll(a) ==
    /\ NoneReleased
    /\ ThreadFree
    /\ LET B == buildResponse(Store, a, 200, "poll", Payload("empty")) IN
       /\ Commit(B.S)
       /\ Serve(B.resp, EmptyBody)
    /\ UNCHANGED <<tickWaiters, pc, hist, lastTick, charged, expired>>
    /\ UNCHANGED runtime

(* app.post("/wait") up to its await: waitForNextTick parks the resolver *)
WaitPark(a) ==
    /\ NoneReleased
    /\ ThreadFree
    /\ pc[a] = "idle"
    /\ tickWaiters' = tickWaiters \cup {a}
    /\ pc' = [pc EXCEPT ![a] = "parked"]
    /\ lastResp' = NoServe
    /\ UNCHANGED <<agents, instances, action_queue, events, link_usage, tick_number,
                   qseq, eseq, hist, recv, lastTick, charged, refunded, expired,
                   last_tick_at, dropped>>
    /\ UNCHANGED runtime

(* app.post("/wait") after its await *)
WaitResume(a) ==
    /\ pc[a] = "released"
    /\ ThreadFree
    /\ LET B == buildResponse(Store, a, 200, "wait", Payload("empty")) IN
       /\ Commit(B.S)
       /\ Serve(B.resp, EmptyBody)
    /\ pc' = [pc EXCEPT ![a] = "idle"]
    /\ UNCHANGED <<tickWaiters, hist, lastTick, charged, expired>>
    /\ UNCHANGED runtime

(* handleBuyAp: count = max(1, min(10, Number(params.count) || 1)) *)
ClampCount(c) == IF c = 0 THEN 1 ELSE IF c < 1 THEN 1 ELSE IF c > 10 THEN 10 ELSE c

(* Variant: the cap is compared with what was bought before this call *)
handleBuyApBefore(S, a, c) ==
    LET count == ClampCount(c) IN
    IF S.agents[a].purchased_ap_this_tick > MAX_BUY_AP_PER_TICK
    THEN [S |-> S, result |-> Payload("error")]
    ELSE [S |-> [S EXCEPT !.agents[a].ap = @ + count,
                          !.agents[a].purchased_ap_this_tick = @ + count],
          result |-> Payload("purchased")]

handleBuyAp(S, a, c) ==
    LET count == ClampCount(c) IN
    IF S.agents[a].purchased_ap_this_tick + count > MAX_BUY_AP_PER_TICK
    THEN [S |-> S, result |-> Payload("error")]
    ELSE [S |-> [S EXCEPT !.agents[a].ap = @ + count,
                          !.agents[a].purchased_ap_this_tick = @ + count],
          result |-> Payload("purchased")]

(* actions.post("/:verb") with verb = buy_ap *)
BuyAp(a, c) ==
    /\ NoneReleased
    /\ ThreadFree
    /\ LET H == handleBuyAp(Store, a, c)
           B == buildResponse(H.S, a, 200, "buy_ap", H.result)
       IN /\ Commit(B.S)
          /\ Serve(B.resp, CountBody(c))
    /\ UNCHANGED <<tickWaiters, pc, hist, lastTick, charged, expired>>
    /\ UNCHANGED runtime

INSTANT_ACTIONS == {"look", "survey", "inspect", "say", "list"}

(* handleInspect(agent, params): of the result object the model keeps the
   error and which of permissions, default_permissions and interactions it
   holds *)
Inspected(error, permissions, default_permissions, interactions) ==
    [error |-> error, permissions |-> permissions,
     default_permissions |-> default_permissions, interactions |-> interactions]

handleInspect(S, a, params) ==
    IF params.target_id = NULL
    THEN Inspected("target_id required", FALSE, FALSE, FALSE)
    ELSE IF params.target_id \notin DOMAIN S.instances
    THEN Inspected("target not found or is void", FALSE, FALSE, FALSE)
    ELSE IF S.instances[params.target_id].is_void = 1
            \/ S.instances[params.target_id].is_destroyed = 1
    THEN Inspected("target not found or is void", FALSE, FALSE, FALSE)
    ELSE IF ~checkPermission(S, a, params.target_id, "inspect")
    THEN Inspected("permission denied", FALSE, FALSE, FALSE)
    ELSE LET template == HasTemplate(S, S.instances[params.target_id].template_id)
             perms == checkPermission(S, a, params.target_id, "perms")
         IN Inspected(NULL, perms, perms /\ template, template)

(* AP cost of a request: travel costs 1 AP per hop of an array `via` *)
apCost(verb, body) ==
    IF verb = "travel" /\ body.via.kind = "array" THEN Len(body.via.ids) ELSE 1

(* The cost the documentation states: 1, or the number of hops *)
StatedCost(verb, body) ==
    IF verb = "travel" /\ body.via.kind = "array" THEN Len(body.via.ids) ELSE 1

(* Variant: one AP whatever the cost *)
DebitOne(S, a, cost) == [S EXCEPT !.agents[a].ap = @ - 1]

Debit(S, a, cost) == [S EXCEPT !.agents[a].ap = @ - cost]

(* handleSay: broadcast a chat event to the others in the node *)
handleSay(S, a) ==
    broadcastToNode(S, S.agents[a].current_node_id, "chat", MessageData("chat"), a)

HistEntry(a, verb, body, tick, cost) ==
    [agent_id |-> a, action |-> verb, enq_tick |-> tick, confirmed |-> tick + 1,
     cost |-> cost, execs |-> <<>>, drops |-> 0]

(* actions.post("/:verb") for the verbs that cost AP *)
ActionVerb(a, verb, body, eventCap, queueCap) ==
    /\ NoneReleased
    /\ ThreadFree
    /\ IF verb = "travel" /\ body.isnull
       THEN \* body.via of null throws before the AP check: 500, nothing written
            /\ Serve(PlainResponse(a, 500, verb), body)
            /\ UNCHANGED <<agents, instances, action_queue, events, link_usage,
                           tick_number, qseq, eseq, hist, charged, refunded,
                           last_tick_at, dropped>>
       ELSE
       LET cost == apCost(verb, body) IN
       IF agents[a].ap < cost
       THEN LET B == buildResponse(Store, a, 429, verb, Payload("error")) IN
            /\ Commit(B.S)
            /\ Serve(B.resp, body)
            /\ UNCHANGED <<hist, charged>>
       ELSE
       LET S1 == Debit(Store, a, cost) IN
       /\ charged' = [charged EXCEPT ![a] = @ + StatedCost(verb, body)]
       /\ IF verb \in INSTANT_ACTIONS
          THEN /\ hist' = hist
               /\ IF body.isnull
                  THEN \* the handler reads a property of null and throws: 500 after the debit
                       /\ Commit(S1)
                       /\ Serve(PlainResponse(a, 500, verb), body)
                  ELSE LET S2 == IF verb = "say" /\ body.message
                                 THEN handleSay(S1, a) ELSE S1
                           B == buildResponse(S2, a, 200, verb,
                                              IF verb = "inspect"
                                              THEN Payload("result")
                                                     @@ [inspect |-> handleInspect(S2, a, body)]
                                              ELSE Payload("result"))
                       IN /\ S2.eseq <= eventCap
                          /\ Commit(B.S)
                          /\ Serve(B.resp, body)
          ELSE \* queued verbs and custom verbs
               LET tick == S1.tick_number
                   S2 == enqueueAction(S1, a, verb, body, tick + 1)
                   B == buildResponse(S2, a, 200, verb, Queued(S2.qseq, tick + 1))
               IN /\ qseq < queueCap
                  /\ Commit(B.S)
                  /\ Serve(B.resp, body)
                  /\ hist' = Append(hist, HistEntry(a, verb, body, tick, cost))
    /\ UNCHANGED <<tickWaiters, pc, lastTick, expired>>
    /\ UNCHANGED runtime

(* History of the entries drained by a tick *)
RECURSIVE Record(_, _, _, _)
Record(h, log, k, tick) ==
    IF k > Len(log) THEN h
    ELSE Record([h EXCEPT ![log[k].id] =
                    IF log[k].executed
                    THEN [@ EXCEPT !.execs = Append(@, tick)]
                    ELSE [@ EXCEPT !.drops = @ + 1]],
                log, k + 1, tick)

Orders == {<<"n1", "n2">>, <<"n2", "n1">>}

EventIds(evs) == {evs[k].id : k \in 1..Len(evs)}

(* The store and the histories after processTick returned T *)
Ticked(T, eventCap) ==
    /\ T.S.eseq <= eventCap
    /\ Commit(T.S)
    /\ lastTick' = T.log
    /\ hist' = Record(hist, T.log, 1, T.S.tick_number)
    /\ expired' = expired \cup {Digest(events[k]) : k \in {j \in 1..Len(events) :
                                                       events[j].id \notin EventIds(T.S.events)}}

(* resolveTickWaiters: every parked resolver is called, the set is cleared *)
resolveTickWaiters ==
    /\ pc' = [a \in Agents |-> IF a \in tickWaiters THEN "released" ELSE pc[a]]
    /\ tickWaiters' = {}

(* processTick, then resolveTickWaiters *)
Tick(idle, order, expire, eventCap, tickCap) ==
    /\ NoneReleased
    /\ tickTimer
    /\ tickPhase = 0
    /\ tick_number < tickCap
    /\ \E T \in {processTick(Store, idle, order, expire)} : Ticked(T, eventCap)
    /\ charged' = [a \in Agents |-> 0]
    /\ resolveTickWaiters
    /\ lastResp' = NoServe
    /\ UNCHANGED recv
    /\ UNCHANGED runtime

----------------------------------------------------------------------------
(* processTick statement by statement.  tickPhase is the position of the   *)
(* run: 1 entered, 2 after the counters are reset, 3 after the idle agents *)
(* are reaped, 4 after the world tick, 5 after the queue is drained.  A     *)
(* statement of the try block that throws (the store refusing a query) is  *)
(* caught by TickCatch.                                                    *)

stored == <<agents, instances, action_queue, events, link_usage, tick_number,
            qseq, eseq, refunded, last_tick_at, dropped>>

(* the interval timer calls processTick *)
TickEnter(tickCap) ==
    /\ NoneReleased
    /\ tickTimer
    /\ tickPhase = 0
    /\ tick_number < tickCap
    /\ tickPhase' = 1
    /\ lastResp' = NoServe
    /\ UNCHANGED <<stored, tickWaiters, pc, hist, recv, lastTick, charged, expired,
                   now, tickTimer>>

(* tick number, last_tick_at and phase 1 *)
TickPhase1 ==
    /\ tickPhase = 1
    /\ Commit(ResetCounters(Store))
    /\ charged' = [a \in Agents |-> 0]
    /\ tickPhase' = 2
    /\ lastResp' = NoServe
    /\ UNCHANGED <<tickWaiters, pc, hist, recv, lastTick, expired, now, tickTimer>>

TickPhase2(idle, eventCap) ==
    /\ tickPhase = 2
    /\ ReapIdle(Store, 1, idle).eseq <= eventCap
    /\ Commit(ReapIdle(Store, 1, idle))
    /\ tickPhase' = 3
    /\ lastResp' = NoServe
    /\ UNCHANGED <<tickWaiters, pc, hist, recv, lastTick, charged, expired, now, tickTimer>>

TickPhase3 ==
    /\ tickPhase = 3
    /\ Commit(Phase3(Store))
    /\ tickPhase' = 4
    /\ lastResp' = NoServe
    /\ UNCHANGED <<tickWaiters, pc, hist, recv, lastTick, charged, expired, now, tickTimer>>

(* the queue rows drained, with the histories *)
TickDrained(D, eventCap) ==
    /\ D.S.eseq <= eventCap
    /\ Commit(D.S)
    /\ lastTick' = D.log
    /\ hist' = Record(hist, D.log, 1, D.S.tick_number)

TickPhase4(order, eventCap) ==
    /\ tickPhase = 4
    /\ TickDrained(Phase4(Store, order), eventCap)
    /\ tickPhase' = 5
    /\ lastResp' = NoServe
    /\ UNCHANGED <<tickWaiters, pc, recv, charged, expired, now, tickTimer>>

(* phase 5 and the end of the try block *)
TickPhase5(expire) ==
    /\ tickPhase = 5
    /\ Commit(CleanupEvents(Store, expire))
    /\ expired' = expired \cup {Digest(events[k]) : k \in {j \in 1..Len(events) :
                                                       events[j].id <= expire}}
    /\ resolveTickWaiters
    /\ tickPhase' = 0
    /\ lastResp' = NoServe
    /\ UNCHANGED <<hist, recv, lastTick, charged, now, tickTimer>>

(* Variant: the catch block only logs *)
TickCatchSilent ==
    /\ tickPhase \in 1..5
    /\ tickPhase' = 0
    /\ lastResp' = NoServe
    /\ UNCHANGED <<stored, tickWaiters, pc, hist, recv, lastTick, charged, expired,
                   now, tickTimer>>

(* the catch block: the waiters are released all the same *)
TickCatch ==
    /\ tickPhase \in 1..5
    /\ resolveTickWaiters
    /\ tickPhase' = 0
    /\ lastResp' = NoServe
    /\ UNCHANGED <<stored, hist, recv, lastTick, charged, expired, now, tickTimer>>

(* stopTickLoop: clearInterval *)
stopTickLoop ==
    /\ NoneReleased
    /\ ThreadFree
    /\ tickTimer
    /\ tickTimer' = FALSE
    /\ lastResp' = NoServe
    /\ UNCHANGED <<stored, tickWaiters, pc, hist, recv, lastTick, charged, expired,
                   now, tickPhase>>

(* startTickLoop: setInterval, unless the handle is set *)
startTickLoop ==
    /\ NoneReleased
    /\ ThreadFree
    /\ ~tickTimer
    /\ tickTimer' = TRUE
    /\ lastResp' = NoServe
    /\ UNCHANGED <<stored, tickWaiters, pc, hist, recv, lastTick, charged, expired,
                   now, tickPhase>>

(* Time passes *)
Clock(maxNow) ==
    /\ NoneReleased
    /\ ThreadFree
    /\ now < maxNow
    /\ now' = now + 1
    /\ lastResp' = NoServe
    /\ UNCHANGED <<stored, tickWaiters, pc, hist, recv, lastTick, charged, expired,
                   tickTimer, tickPhase>>

----------------------------------------------------------------------------
(* Inputs *)

Seqs(L, n) == UNION {[1..k -> L] : k \in 0..n}

Request(verb, body) == [verb |-> verb, body |-> body]

(* General input set: two agents, queued and custom verbs.  a1 is the agent
   that long-polls and that the idle cutoff can reach. *)
Route(k) == [i \in 1..k |-> IF i = 1 THEN "l1" ELSE "lv"]

Requests ==
    {Request("create", NullBody),
     Request("travel", TravelBody(Via("string", <<"l1">>))),
     Request("travel", TravelBody(Via("string", <<"l2">>))),
     Request("travel", TravelBody(Via("array", Route(MaxVia))))}

(* Event rows that the TTL cutoff of a tick can reach: none, or all the rows
   that predate the tick *)
ExpireChoices == {0, eseq}

FixedOrder == <<"n1", "n2">>

Next ==
    \/ \E a \in Agents : Poll(a)
    \/ WaitPark("a1")
    \/ WaitResume("a1")
    \/ \E a \in Agents, r \in Requests : ActionVerb(a, r.verb, r.body, MaxEvents, MaxQueue)
    \/ \E idle \in SUBSET {"a1"}, expire \in ExpireChoices :
           Tick(idle, FixedOrder, expire, MaxEvents, MaxTick)

Spec == Init /\ [][Next]_vars

(* AP input set: one agent, instant verbs, buy_ap, travel over links that
   fail at the first hop, and one long route *)
BadRoute(k) == [i \in 1..k |-> "zz"]

RequestsAP ==
    {Request("look", EmptyBody), Request("say", NullBody),
     Request("travel", TravelBody(Via("string", <<"zz">>))),
     Request("travel", TravelBody(Via("array", BadRoute(LongRoute))))}
    \cup {Request("travel", TravelBody(Via("array", BadRoute(k)))) : k \in {0, MaxVia}}

BuyCounts == {10, 11}

NextAP ==
    \/ \E c \in BuyCounts : BuyAp("a1", c)
    \/ \E r \in RequestsAP : ActionVerb("a1", r.verb, r.body, MaxEvents, MaxQueue)
    \/ Tick({}, FixedOrder, 0, MaxEvents, MaxTick)

SpecAP == Init /\ [][NextAP]_vars

(* Travel input set: one agent, routes over every kind of link, random order *)
TravelLinks == {"l1", "lk", "lg", "lv", "ld", "lh", "lb", "lx", "p1", "zz"}

L1s(j) == [i \in 1..j |-> "l1"]

(* Routes: any link after a run of l1 hops, and l1 hops after a first hop
   that is denied or fails *)
RoutesTravel ==
    {L1s(j) \o r : j \in 0..(MaxVia - 1), r \in Seqs(TravelLinks, 1)}
    \cup {<<x>> \o L1s(j) : x \in {"zz", "lk"}, j \in 1..(MaxVia - 1)}

RequestsTravel ==
    {Request("home", EmptyBody),
     Request("travel", NullBody), Request("travel", EmptyBody),
     Request("travel", TravelBody(Via("string", <<"l1">>)))}
    \cup {Request("travel", TravelBody(Via("array", r))) : r \in RoutesTravel}

NextTravel ==
    \/ \E r \in RequestsTravel : ActionVerb("a1", r.verb, r.body, MaxEvents, MaxQueue)
    \/ \E order \in Orders : Tick({}, order, 0, MaxEvents, MaxTick)

SpecTravel == Init /\ [][NextTravel]_vars

(* Backlog input set.  The state it starts from: at tick 0 a1 asked for
   travel l1 and a2 for travel l2, tick 1 moved both to n1, both polled; since
   then a2 has said Backlog things in n1, MAX_AP per tick, and a1 has not
   asked for anything.  The backlog is such that the envelopes of MaxQueue
   requests leave MAX_EVENTS_PER_RESPONSE - 1 rows stored.  a1 asks, both
   agents poll; no agent is idle. *)
Backlog == (MaxQueue + 1) * MAX_EVENTS_PER_RESPONSE - 1
BacklogTick == (Backlog + 1) \div MAX_AP
(* The events of tick 1, all delivered: a1's result, a2's arrival, a2's result *)
EarlierEvents ==
    << [id |-> 1, agent_id |-> "a1", type |-> "action_result", action_id |-> 1],
       [id |-> 2, agent_id |-> "a1", type |-> "broadcast", action_id |-> 0],
       [id |-> 3, agent_id |-> "a2", type |-> "action_result", action_id |-> 2] >>
BacklogFirst == Len(EarlierEvents)

RequestsBacklog ==
    {Request("create", NullBody), Request("say", SayBody),
     Request("travel", TravelBody(Via("string", <<"lx">>)))}

InitBacklog ==
    /\ agents = [a \in Agents |-> [ap |-> MAX_AP, purchased_ap_this_tick |-> 0,
                                   current_node_id |-> "n1", see_broadcasts |-> 1]]
    /\ instances = InitInstances
    /\ action_queue = <<>>
    /\ link_usage = << [agent_id |-> "a1", link_id |-> "l1", destination_id |-> "n1"],
                       [agent_id |-> "a2", link_id |-> "l2", destination_id |-> "n1"] >>
    /\ tick_number = BacklogTick
    /\ qseq = 2
    /\ events = [k \in 1..Backlog |->
                    [id |-> BacklogFirst + k, agent_id |-> "a1", type |-> "chat",
                     data |-> MessageData("chat")]]
    /\ eseq = BacklogFirst + Backlog
    /\ tickWaiters = {}
    /\ pc = [a \in Agents |-> "idle"]
    /\ lastResp = NoServe
    /\ hist = << [HistEntry("a1", "travel", TravelBody(Via("string", <<"l1">>)), 0, 1)
                     EXCEPT !.execs = <<1>>],
                 [HistEntry("a2", "travel", TravelBody(Via("string", <<"l2">>)), 0, 1)
                     EXCEPT !.execs = <<1>>] >>
    /\ recv = [a \in Agents |-> SelectSeq(EarlierEvents, LAMBDA d : d.agent_id = a)]
    /\ lastTick = <<>>
    /\ charged = [a \in Agents |-> 0]
    /\ refunded = [a \in Agents |-> 0]
    /\ expired = {}
    /\ last_tick_at = 0
    /\ dropped = {}
    /\ now = 0
    /\ tickTimer = TRUE
    /\ tickPhase = 0

NextBacklog ==
    \/ \E a \in Agents : Poll(a)
    \/ \E r \in RequestsBacklog :
           ActionVerb("a1", r.verb, r.body, BacklogFirst + Backlog + MaxEvents, 2 + MaxQueue)
    \/ \E expire \in ExpireChoices :
           Tick({}, FixedOrder, expire, BacklogFirst + Backlog + MaxEvents,
                BacklogTick + MaxTick)

SpecBacklog == InitBacklog /\ [][NextBacklog]_vars

(* Purchase input set: one agent buys AP in amounts that reach the cap
   exactly and amounts that would pass it, spends AP, polls; processTick
   statement by statement with no statement throwing; time passes. *)
BuyAmounts == {0, 7, 10}

NextBuy ==
    \/ \E c \in BuyAmounts : BuyAp("a1", c)
    \/ ActionVerb("a1", "look", EmptyBody, MaxEvents, MaxQueue)
    \/ Poll("a1")
    \/ TickEnter(MaxTick)
    \/ TickPhase1
    \/ TickPhase2({}, MaxEvents)
    \/ TickPhase3
    \/ TickPhase4(FixedOrder, MaxEvents)
    \/ TickPhase5(0)
    \/ Clock(MaxNow)

SpecBuy == Init /\ [][NextBuy]_vars

(* Step input set: processTick statement by statement, with the statements
   that can throw; both agents long-poll, a1 asks, a2 can be reaped *)
RequestsSteps ==
    {Request("look", EmptyBody),
     Request("travel", TravelBody(Via("string", <<"l1">>)))}

NextSteps ==
    \/ \E a \in Agents : Poll(a)
    \/ \E a \in Agents : WaitPark(a)
    \/ \E a \in Agents : WaitResume(a)
    \/ \E r \in RequestsSteps : ActionVerb("a1", r.verb, r.body, MaxEvents, MaxQueue)
    \/ TickEnter(MaxTick)
    \/ TickPhase1
    \/ \E idle \in SUBSET {"a2"} : TickPhase2(idle, MaxEvents)
    \/ TickPhase3
    \/ TickPhase4(FixedOrder, MaxEvents)
    \/ TickPhase5(0)
    \/ TickCatch

SpecSteps == Init /\ [][NextSteps]_vars

(* Long-poll input set: the tick loop can be stopped and started; a request
   parks only while the model has a tick left to run.  The interval timer
   fires as long as its handle is set, and a released continuation runs. *)
WaitParkLive(a) ==
    /\ tick_number < MaxTick
    /\ WaitPark(a)

TimerFires == Tick({}, FixedOrder, 0, MaxEvents, MaxTick)

Resumes == \E a \in Agents : WaitResume(a)

NextLive ==
    \/ \E a \in Agents : Poll(a)
    \/ \E a \in Agents : WaitParkLive(a)
    \/ Resumes
    \/ ActionVerb("a1", "look", EmptyBody, MaxEvents, MaxQueue)
    \/ TimerFires
    \/ stopTickLoop
    \/ startTickLoop

SpecLive == Init /\ [][NextLive]_vars /\ SF_vars(TimerFires) /\ WF_vars(Resumes)

(* The world of boxes: both agents stand in the node w1 *)
InitWorldState ==
    /\ agents = [a \in Agents |-> [ap |-> MAX_AP, purchased_ap_this_tick |-> 0,
                                   current_node_id |-> "w1", see_broadcasts |-> 1]]
    /\ instances = InitWorld
    /\ action_queue = <<>>
    /\ link_usage = <<>>
    /\ tick_number = 0
    /\ qseq = 0
    /\ events = <<>>
    /\ eseq = 0
    /\ tickWaiters = {}
    /\ pc = [a \in Agents |-> "idle"]
    /\ lastResp = NoServe
    /\ hist = <<>>
    /\ recv = [a \in Agents |-> <<>>]
    /\ lastTick = <<>>
    /\ charged = [a \in Agents |-> 0]
    /\ refunded = [a \in Agents |-> 0]
    /\ expired = {}
    /\ last_tick_at = 0
    /\ dropped = {}
    /\ now = 0
    /\ tickTimer = TRUE
    /\ tickPhase = 0

TargetBody(target, into) == [EmptyBody EXCEPT !.target_id = target, !.into = into]
CreateBody(templateId, containerId) ==
    [EmptyBody EXCEPT !.type = "instance", !.template_id = templateId,
                      !.container_id = containerId]

(* Input set of the world of boxes: the verbs of the gadget x1, take and
   drop with and without `into`, create and delete *)
RequestsWorld ==
    {Request("use", TargetBody("x1", NULL)),
     Request("spin", TargetBody("x1", NULL)),
     Request("grow", TargetBody("x1", NULL)),
     Request("grab", TargetBody("x1", NULL)),
     Request("hand", TargetBody("x1", NULL)),
     Request("take", TargetBody("b2", NULL)),
     Request("take", TargetBody("g5", "b2")),
     Request("drop", TargetBody("b2", NULL)),
     Request("drop", TargetBody("b2", "b1")),
     Request("create", CreateBody("tb", NULL)),
     Request("create", CreateBody("tb", "b1")),
     Request("create", CreateBody("tw", NULL)),
     Request("delete", TargetBody("w1", NULL)),
     Request("delete", TargetBody("b1", NULL))}

(* A queued action that can insert an instance *)
Creates(verb) == verb \in {"create", "grow"}

(* The ids of FreshIds suffice for the instances the queue can still create *)
Room(verb) ==
    Creates(verb) =>
        Cardinality(DOMAIN instances)
          + Len(SelectSeq(action_queue, LAMBDA q : Creates(q.action)))
          < Cardinality(WorldIds) + Len(FreshIds)

WorldVerb(a, r) ==
    /\ Room(r.verb)
    /\ ActionVerb(a, r.verb, r.body, MaxWorldEvents, MaxWorldQueue)

WorldTicks == Tick({}, FixedOrder, 0, MaxWorldEvents, MaxTick)

NextWorld ==
    \/ \E r \in RequestsWorld : WorldVerb("a1", r)
    \/ WorldTicks

SpecWorld == InitWorldState /\ [][NextWorld]_vars

(* Budget input set: the verbs jam and poke of the gadget x1, by both agents *)
RequestsBudget ==
    {Request("jam", TargetBody("x1", NULL)), Request("poke", TargetBody("x1", NULL))}

NextBudget ==
    \/ \E a \in Agents, r \in RequestsBudget :
           ActionVerb(a, r.verb, r.body, MaxWorldEvents, MaxUses)
    \/ Tick({}, FixedOrder, 0, MaxWorldEvents, MaxTick)

SpecBudget == InitWorldState /\ [][NextBudget]_vars

(* The world of boxes with the rows `rows`, the agents in the nodes `where` *)
InitWorldWith(rows, where) ==
    /\ agents = [a \in Agents |-> [ap |-> MAX_AP, purchased_ap_this_tick |-> 0,
                                   current_node_id |-> where[a], see_broadcasts |-> 1]]
    /\ instances = rows
    /\ action_queue = <<>>
    /\ link_usage = <<>>
    /\ tick_number = 0
    /\ qseq = 0
    /\ events = <<>>
    /\ eseq = 0
    /\ tickWaiters = {}
    /\ pc = [a \in Agents |-> "idle"]
    /\ lastResp = NoServe
    /\ hist = <<>>
    /\ recv = [a \in Agents |-> <<>>]
    /\ lastTick = <<>>
    /\ charged = [a \in Agents |-> 0]
    /\ refunded = [a \in Agents |-> 0]
    /\ expired = {}
    /\ last_tick_at = 0
    /\ dropped = {}
    /\ now = 0
    /\ tickTimer = TRUE
    /\ tickPhase = 0

PermissionKeys == {"inspect", "interact", "edit", "delete", "contain", "perms"}

(* Inputs of checkPermission: the overrides of the box b1 (none, or one rule
   for every key), its template (defaults for every key, a default for
   inspect only, or no template: a void instance), and where it is (in the
   node w1 or in the inventory of a1).  a1 is in w1, a2 at home. *)
PermRules ==
    {PRule("any"), PRule("none"), PRule("owner"), PRule("node"),
     PList({"a1"}), PList({"a2"})}

Overrides == {NoPerms} \cup {[k \in PermissionKeys |-> r] : r \in PermRules}

InitPermission ==
    \E tpl \in {"tb", "tp", NULL}, ov \in Overrides,
       c \in {<<"instance", "w1">>, <<"agent", "a1">>} :
        InitWorldWith([InitWorld EXCEPT !["b1"] =
                          Row(tpl, "thing", ov, c[1], c[2],
                              IF tpl = NULL THEN 1 ELSE 0, 0, NULL, NULL)],
                      [a \in Agents |-> IF a = "a1" THEN "w1" ELSE "h2"])

EditBody(target, permissions) ==
    [EmptyBody EXCEPT !.target_type = "instance", !.target_id = target,
                      !.changes = Changes(TRUE, TRUE, permissions)]

(* Permission input set: a custom verb, an edit of the permissions and a
   delete, on b1, by both agents *)
RequestsPermission ==
    {Request("poke", TargetBody("b1", NULL)),
     Request("edit", EditBody("b1", [inspect |-> PRule("any")])),
     Request("delete", TargetBody("b1", NULL))}

NextPermission ==
    \/ \E a \in Agents, r \in RequestsPermission :
           ActionVerb(a, r.verb, r.body, MaxWorldEvents, MaxQueue)
    \/ WorldTicks

SpecPermission == InitPermission /\ [][NextPermission]_vars

(* Inputs of the effects: the box b1 in w1 holds the gadget x1 of template
   te and the box b2; for each of the keys edit, contain, delete and perms
   b1 has no override, or the override "none" that the owner a1 of te does
   not pass *)
OwnerKeys == {"edit", "contain", "delete", "perms"}

InitEffects ==
    \E closed \in SUBSET OwnerKeys :
        InitWorldWith([InitWorld EXCEPT
                          !["b1"].permissions = [k \in closed |-> PRule("none")],
                          !["x1"] = Row("te", "thing", NoPerms, "instance", "b1",
                                        0, 0, NULL, NULL),
                          !["b2"].container_id = "b1"],
                      [a \in Agents |-> "w1"])

SubjectBody(target, subject) ==
    [EmptyBody EXCEPT !.target_id = target, !.subject_id = subject]

(* Effects input set: a2 sends the verbs of the gadget x1, a1 edits the
   permissions of x1 *)
RequestsEffects ==
    {Request("fill", TargetBody("x1", NULL)),
     Request("mark", SubjectBody("x1", "b1")),
     Request("grab", TargetBody("x1", NULL)),
     Request("hand", TargetBody("x1", NULL)),
     Request("use", TargetBody("x1", NULL)),
     Request("lock", TargetBody("x1", NULL)),
     Request("seal", TargetBody("x1", NULL))}

NextEffects ==
    \/ \E r \in RequestsEffects : ActionVerb("a2", r.verb, r.body, MaxWorldEvents, MaxQueue)
    \/ ActionVerb("a1", "edit", EditBody("x1", [delete |-> PList({"a2"})]),
                  MaxWorldEvents, MaxQueue)
    \/ WorldTicks

SpecEffects == InitEffects /\ [][NextEffects]_vars

(* Inputs of deny: the gadget x1 is of template td *)
InitDeny ==
    InitWorldWith([InitWorld EXCEPT
                      !["x1"] = Row("td", "thing", NoPerms, "instance", "b1",
                                    0, 0, NULL, NULL)],
                  [a \in Agents |-> "w1"])

RequestsDeny ==
    {Request(verb, TargetBody("x1", NULL)) : verb \in {"halt", "deep", "skip", "gate", "veto"}}

NextDeny ==
    \/ \E r \in RequestsDeny : ActionVerb("a2", r.verb, r.body, MaxWorldEvents, MaxUses)
    \/ WorldTicks

SpecDeny == InitDeny /\ [][NextDeny]_vars

(* Inputs of the hops: the nodes o1 and d1 with the links k1 (o1 to d1),
   k2 and k3 (d1 to o1); k3 denies travel; k1 denies travel or not, o1
   denies exit or not, d1 denies enter or not.  a1 is in o1, a2 in d1. *)
HopIds == {"h1", "h2", "o1", "d1", "k1", "k2", "k3"}

HopWorld(linkTemplate, originTemplate, destinationTemplate) ==
    [i \in HopIds |->
        CASE i = "h1" -> Row(NULL, "node", HomePermissions("a1"), NULL, NULL, 0, 0, NULL, NULL)
          [] i = "h2" -> Row(NULL, "node", HomePermissions("a2"), NULL, NULL, 0, 0, NULL, NULL)
          [] i = "o1" -> Row(originTemplate, "node", NoPerms, NULL, NULL, 0, 0, NULL, NULL)
          [] i = "d1" -> Row(destinationTemplate, "node", NoPerms, NULL, NULL, 0, 0, NULL, NULL)
          [] i = "k1" -> Row(linkTemplate, "link", NoPerms, "instance", "o1", 0, 0, NULL, "d1")
          [] i = "k2" -> Row("ls", "link", NoPerms, "instance", "d1", 0, 0, NULL, "o1")
          [] i = "k3" -> Row("lsd", "link", NoPerms, "instance", "d1", 0, 0, NULL, "o1")]

InitHops ==
    \E lt \in {"ls", "lsd"}, ot \in {"ns", "nx"}, dt \in {"ns", "ne"} :
        InitWorldWith(HopWorld(lt, ot, dt),
                      [a \in Agents |-> IF a = "a1" THEN "o1" ELSE "d1"])

RequestsHops ==
    {Request("travel", TravelBody(Via("array", r))) :
        r \in {<<"k1">>, <<"k1", "k2">>, <<"k1", "k3">>, <<"k2">>}}

NextHops ==
    \/ \E r \in RequestsHops : ActionVerb("a1", r.verb, r.body, MaxHopEvents, MaxQueue)
    \/ Tick({}, FixedOrder, 0, MaxHopEvents, MaxTick)

SpecHops == InitHops /\ [][NextHops]_vars

(* Inputs of the random links: the world of links, where n1 is live, void
   or destroyed and has no override or one for interact, n2 is live or
   destroyed, and the home h1 has the interact rule of createHomeNode or
   "any", as after an edit by a1.  The agents are at home, by their random
   links p1 and p2. *)
InitRandom ==
    \E st \in {"live", "void", "destroyed"}, gone \in {0, 1},
       ov \in {NoPerms} \cup {[interact |-> r] : r \in {PRule("none"), PRule("node"),
                                                      PList({"a1"})}},
       open \in BOOLEAN :
        InitWorldWith([InitInstances EXCEPT
                          !["n1"].is_void = IF st = "void" THEN 1 ELSE 0,
                          !["n1"].template_id = IF st = "void" THEN NULL ELSE "tn",
                          !["n1"].is_destroyed = IF st = "destroyed" THEN 1 ELSE 0,
                          !["n1"].permissions = ov,
                          !["n2"].is_destroyed = gone,
                          !["h1"].permissions =
                              IF open THEN [@ EXCEPT !.interact = PRule("any")] ELSE @],
                      home_node_id)

(* The orders ORDER BY RANDOM() gives the nodes in *)
OrdersRandom ==
    {<<"h1", "h2", "n1", "n2">>, <<"n2", "n1", "h2", "h1">>, <<"h2", "n1", "h1", "n2">>}

RequestsRandom ==
    {[agent |-> "a1", verb |-> "travel", body |-> TravelBody(Via("string", <<"p1">>))],
     [agent |-> "a2", verb |-> "travel", body |-> TravelBody(Via("string", <<"p2">>))],
     [agent |-> "a1", verb |-> "home", body |-> EmptyBody]}

NextRandom ==
    \/ \E r \in RequestsRandom : ActionVerb(r.agent, r.verb, r.body, MaxHopEvents, MaxQueue)
    \/ \E order \in OrdersRandom : Tick({}, order, 0, MaxHopEvents, MaxTick)

SpecRandom == InitRandom /\ [][NextRandom]_vars

(* Home input set: both agents, at home, edit the permissions of the home
   node h1 of a1 and delete it *)
InitHome == InitWorldWith(InitWorld, home_node_id)

RequestsHome ==
    {Request("edit", EditBody("h1", [delete |-> PRule("any")])),
     Request("edit", EditBody("h1", [interact |-> PRule("any")])),
     Request("delete", TargetBody("h1", NULL))}

NextHome ==
    \/ \E a \in Agents, r \in RequestsHome :
           ActionVerb(a, r.verb, r.body, MaxWorldEvents, MaxQueue)
    \/ WorldTicks

SpecHome == InitHome /\ [][NextHome]_vars

(* Template input set: the templates of the world of boxes are deleted, by
   their owner a1 and by a2, between uses of the gadget x1 *)
RequestsTemplates ==
    {Request("use", TargetBody("x1", NULL)),
     Request("delete", TargetBody("tw", NULL)),
     Request("delete", TargetBody("tb", NULL)),
     Request("delete", TargetBody("tx", NULL)),
     Request("create", CreateBody("tb", NULL))}

NextTemplates ==
    \/ \E a \in Agents, r \in RequestsTemplates :
           /\ Room(r.verb)
           /\ ActionVerb(a, r.verb, r.body, MaxWorldEvents, MaxWorldQueue)
    \/ WorldTicks

SpecTemplates == InitWorldState /\ [][NextTemplates]_vars

----------------------------------------------------------------------------
(* Properties *)

(* The verbs of requests that go through the AP check *)
CostVerbs == {r.verb : r \in Requests \cup RequestsAP \cup RequestsTravel}

(* The step is a request of a verb that costs AP, served to lastResp'.agent *)
CostRequest == lastResp'.verb \in CostVerbs /\ tick_number' = tick_number

(* C1: at the boundary of every tick (right after processTick) every agent
   has 0 <= ap <= MAX_AP + MAX_BUY_AP_PER_TICK. *)
C1_TickBoundaryAP ==
    [][tick_number' # tick_number =>
          \A a \in Agents : /\ agents'[a].ap >= 0
                            /\ agents'[a].ap <= MAX_AP + MAX_BUY_AP_PER_TICK]_vars

(* C2: a request of a verb that costs AP is accepted iff the stored AP is at
   least its cost; an accepted request lowers AP by exactly its cost; a
   rejected one (429) changes neither AP nor the queue; AP is never negative;
   without buy_ap, a 1-AP request is rejected once MAX_AP AP have been spent
   in the tick. *)
C2_AcceptIffAfforded ==
    [][LET a == lastResp'.agent
           cost == StatedCost(lastResp'.verb, lastResp'.body)
           rejected == lastResp'.status = 429
       IN CostRequest =>
            /\ rejected <=> agents[a].ap < cost
            /\ rejected => agents'[a].ap = agents[a].ap /\ action_queue' = action_queue
            /\ ~rejected => agents'[a].ap = agents[a].ap - cost
            /\ agents'[a].ap >= 0
            /\ (agents[a].purchased_ap_this_tick = 0 /\ cost = 1 /\ charged[a] >= MAX_AP)
                  => rejected]_vars

(* C3: every verb that is not free costs at least 1 AP: with AP 0 no such
   request is executed or enqueued, each is answered with 429. *)
C3_NothingAtZeroAP ==
    [][LET a == lastResp'.agent IN
       (CostRequest /\ agents[a].ap = 0) =>
            /\ lastResp'.status = 429
            /\ action_queue' = action_queue]_vars

(* C4: for an agent that bought no AP, at every point AP = MAX_AP - the AP
   charged for the requests accepted since the last reset + the travel hops
   refunded since that reset. *)
C4_Conservation ==
    \A a \in Agents :
        agents[a].purchased_ap_this_tick = 0 =>
            agents[a].ap = MAX_AP - charged[a] + refunded[a]

(* an agent that bought nothing has been refunded in the last tick and has
   been charged since *)
C4_Witness ==
    /\ agents["a1"].purchased_ap_this_tick = 0
    /\ refunded["a1"] > 0
    /\ charged["a1"] > 0

(* For the travel entries of the last tick: the hop index the route stopped
   at is the number of hops made (rows added to link_usage). *)
TravelRan(e) == e.action = "travel" /\ e.executed /\ ~e.threw /\ e.hops >= 1
Arrived(e) == e.result.arrived_at # NULL
Denied(e) == e.result.error # NULL /\ e.result.stopped_at # NULL
Invalid(e) == e.result.error # NULL /\ e.result.stopped_at = NULL

(* C5: a travel action of n hops that stops at hop i is refunded n - i - 1
   when hop i is denied by a travel/exit/enter rule and n - i when hop i
   fails validation; the refund is at most the AP debited for the action; a
   route that arrives is refunded nothing. *)
C5_TravelRefund ==
    \A k \in 1..Len(lastTick) :
        LET e == lastTick[k] IN
        TravelRan(e) =>
            /\ Denied(e) => e.ap_gain = e.hops - e.moved - 1
            /\ Invalid(e) => e.ap_gain = e.hops - e.moved
            /\ Arrived(e) => e.ap_gain = 0 /\ e.moved = e.hops
            /\ e.ap_gain <= hist[e.id].cost

(* the last tick ran a two-hop route whose second link failed validation
   (debit 2, refund 1) and a route denied at its first hop *)
C5_Witness ==
    /\ \E k \in 1..Len(lastTick) :
          LET e == lastTick[k] IN
          TravelRan(e) /\ Invalid(e) /\ e.hops = 2 /\ e.moved = 1 /\ e.ap_gain = 1
    /\ \E k \in 1..Len(lastTick) :
          LET e == lastTick[k] IN
          TravelRan(e) /\ Denied(e) /\ e.moved = 0

(* Fields of the history of queue entry k *)
Due(k) == tick_number >= hist[k].confirmed
InLimbo(a) == agents[a].current_node_id = NULL

(* The parts of C6 about the queue: the response confirms tick T + 1, and so
   does the stored row; the entries of a tick run in increasing ordinal, each
   agent row loaded as the entries before left it; after a tick the queue
   holds no entry of that tick or an earlier one. *)
C6_QueueDiscipline ==
    /\ lastResp.result.kind = "queued" =>
          /\ lastResp.result.tick_number = lastResp.tick + 1
          /\ hist[lastResp.result.action_id].enq_tick = lastResp.tick
    /\ \A k \in 1..Len(hist) : hist[k].confirmed = hist[k].enq_tick + 1
    /\ \A k \in 1..Len(action_queue) :
          /\ action_queue[k].tick_number > tick_number
          /\ action_queue[k].tick_number = hist[action_queue[k].id].confirmed
    /\ \A k \in 1..Len(lastTick) :
          /\ lastTick[k].tick_number = tick_number
          /\ k > 1 => lastTick[k - 1].id < lastTick[k].id
          /\ \A j \in 1..(k - 1) :
                (/\ lastTick[j].agent_id = lastTick[k].agent_id
                 /\ \A m \in (j + 1)..(k - 1) : lastTick[m].agent_id # lastTick[k].agent_id)
                => lastTick[k].node_seen = lastTick[j].node_after

(* C6 as stated: a queued action accepted at tick T is confirmed for T + 1
   and executed exactly once, in tick T + 1 and in no other tick; entries run
   in increasing ordinal, each seeing the store the earlier ones left; after a
   tick the queue holds no entry of that tick or earlier. *)
C6_ExactlyOnce ==
    /\ C6_QueueDiscipline
    /\ \A k \in 1..Len(hist) :
          IF Due(k) THEN hist[k].execs = << hist[k].confirmed >>
          ELSE hist[k].execs = <<>>

(* C6 amended: executed at most once and only in tick T + 1; exactly once
   unless the agent is in limbo when the entry is drained, in which case the
   entry is deleted in tick T + 1 without being executed. *)
C6_ExactlyOnceUnlessLimbo ==
    /\ C6_QueueDiscipline
    /\ \A k \in 1..Len(hist) :
          IF Due(k)
          THEN \/ hist[k].execs = << hist[k].confirmed >> /\ hist[k].drops = 0
               \/ hist[k].execs = <<>> /\ hist[k].drops = 1 /\ InLimbo(hist[k].agent_id)
          ELSE hist[k].execs = <<>> /\ hist[k].drops = 0
    /\ \A k \in 1..Len(lastTick) : lastTick[k].executed <=> lastTick[k].node_seen # NULL

(* the last tick ran two entries of one agent, the second from the node the
   first moved the agent to *)
C6_Witness ==
    /\ Len(lastTick) = 2
    /\ lastTick[1].executed /\ lastTick[2].executed
    /\ lastTick[1].agent_id = lastTick[2].agent_id
    /\ lastTick[2].node_seen # lastTick[1].node_seen
    /\ hist[lastTick[2].id].execs = << tick_number >>

ResultsOf(q) == SelectSeq(q, LAMBDA d : d.type = "action_result")

(* C7: the action_result events of an agent's queued actions reach the agent
   in enqueue order, over one envelope or several; every envelope carries the
   oldest undelivered events in increasing ordinal and leaves the rest
   stored. *)
C7_ResultOrder ==
    \A a \in Agents :
        LET r == ResultsOf(recv[a])
            left == EventsOf(events, a)
        IN /\ \A k \in 1..(Len(r) - 1) : r[k].action_id < r[k + 1].action_id
           /\ \A k \in 1..(Len(recv[a]) - 1) : recv[a][k].id < recv[a][k + 1].id
           /\ (Len(recv[a]) > 0 /\ Len(left) > 0) => recv[a][Len(recv[a])].id < left[1].id

(* two results of one tick went out in two envelopes: the first closed an
   envelope of MAX_EVENTS_PER_RESPONSE events, the second came alone *)
C7_Witness ==
    /\ lastResp.envelope /\ lastResp.agent = "a1"
    /\ Len(lastResp.events) = 1
    /\ lastResp.events[1].type = "action_result"
    /\ LET r == ResultsOf(recv["a1"]) IN
       /\ Len(r) >= 2
       /\ hist[r[Len(r)].action_id].confirmed = hist[r[Len(r) - 1].action_id].confirmed
       /\ r[Len(r)].id = lastResp.events[1].id
    /\ Len(recv["a1"]) > MAX_EVENTS_PER_RESPONSE

ResultRows(e) == SelectSeq(e.events_added, LAMBDA v : v.type = "action_result")

(* C8: every entry drained for an agent that is not in limbo adds exactly one
   action_result event, addressed to the agent, with the entry's action and
   id; a throw of the handler becomes an {error} result; the entry is removed
   and the other entries of the tick are processed. *)
C8_OneResultPerEntry ==
    /\ \A k \in 1..Len(lastTick) :
          LET e == lastTick[k] IN
          /\ e.node_seen # NULL =>
                /\ Len(ResultRows(e)) = 1
                /\ ResultRows(e)[1].agent_id = e.agent_id
                /\ ResultRows(e)[1].data.action = e.action
                /\ ResultRows(e)[1].data.action_id = e.id
                /\ e.threw => ResultRows(e)[1].data.result = Err("action failed")
          /\ \A j \in 1..Len(action_queue) : action_queue[j].id # e.id
    /\ tick_number > 0 =>
          {lastTick[k].id : k \in 1..Len(lastTick)}
              = {k \in 1..Len(hist) : hist[k].confirmed = tick_number}

(* the handler of the first entry of the last tick threw and the second
   entry ran *)
C8_Witness ==
    /\ Len(lastTick) = 2
    /\ lastTick[1].threw
    /\ lastTick[2].executed
    /\ Len(ResultRows(lastTick[1])) = 1

(* A response has been served to the agent since the last tick *)
ServedSinceTick(a) == lastResp.agent = a

HasResult(a, k) ==
    \E j \in 1..Len(recv[a]) : recv[a][j].type = "action_result" /\ recv[a][j].action_id = k

(* C9 as stated: the action_result of an action submitted at tick T is in the
   first response served to the agent after tick T + 1, and in no response
   served before. *)
C9_FirstResponse ==
    \A k \in 1..Len(hist) :
        LET a == hist[k].agent_id IN
        /\ (Due(k) /\ ServedSinceTick(a)) => HasResult(a, k)
        /\ HasResult(a, k) => Due(k)

(* C9 amended: the action_result is in no response served before tick T + 1
   completes and in none unless the entry was executed; an envelope served to
   the agent returns every stored event of the agent unless it is full
   (MAX_EVENTS_PER_RESPONSE events), so a result that was created and not
   deleted by a later cleanup is in the first envelope after tick T + 1 that
   fewer than MAX_EVENTS_PER_RESPONSE older events precede it in. *)
C9_FirstEnvelopeWithRoom ==
    /\ \A k \in 1..Len(hist) :
          HasResult(hist[k].agent_id, k) => Due(k) /\ hist[k].execs # <<>>
    /\ lastResp.envelope =>
          \/ Len(lastResp.events) = MAX_EVENTS_PER_RESPONSE
          \/ EventsOf(events, lastResp.agent) = <<>>
    /\ \A k \in 1..Len(hist) :
          LET a == hist[k].agent_id IN
          (hist[k].execs # <<>> /\ lastResp.envelope /\ lastResp.agent = a) =>
              \/ HasResult(a, k)
              \/ \E j \in 1..Len(events) :
                     events[j].type = "action_result" /\ events[j].data.action_id = k
              \/ \E d \in expired : d.type = "action_result" /\ d.action_id = k

(* the response of a /wait parked before the tick carries the result of an
   action submitted in the tick before *)
C9_Witness ==
    /\ lastResp.verb = "wait" /\ lastResp.envelope
    /\ \E j \in 1..Len(lastResp.events) :
          /\ lastResp.events[j].type = "action_result"
          /\ hist[lastResp.events[j].data.action_id].confirmed = tick_number

Stored == EventIds(events)
Expired == {d.id : d \in expired}
DeliveredTo(a) == EventIds(recv[a])

(* C10: each event row is returned in at most one envelope and only to the
   agent it is addressed to; buildResponse deletes exactly the rows it
   returns: a row is stored, or delivered, or deleted by the cleanup of a
   tick, and only one of the three. *)
C10_DestructiveRead ==
    /\ \A a \in Agents :
          /\ \A k \in 1..Len(recv[a]) : recv[a][k].agent_id = a
          /\ \A k \in 1..(Len(recv[a]) - 1) : recv[a][k].id < recv[a][k + 1].id
          /\ DeliveredTo(a) \cap Stored = {}
          /\ DeliveredTo(a) \cap Expired = {}
          /\ \A b \in Agents \ {a} : DeliveredTo(a) \cap DeliveredTo(b) = {}
    /\ Stored \cap Expired = {}
    /\ Stored \cup Expired \cup UNION {DeliveredTo(a) : a \in Agents} = 1..eseq

(* a full envelope went out and rows of the agent stay stored, while the
   other agent has been served events too *)
C10_Witness ==
    /\ lastResp.envelope
    /\ Len(lastResp.events) = MAX_EVENTS_PER_RESPONSE
    /\ EventsOf(events, lastResp.agent) # <<>>
    /\ \E a \in Agents \ {lastResp.agent} : Len(recv[a]) > 1

----------------------------------------------------------------------------
(* Long-poll waiters *)

TickEnds == tickPhase # 0 /\ tickPhase' = 0

(* C11: every waiter registered before a tick starts is released when the
   tick ends, through the end of the try block or through the catch block;
   the tick leaves the waiter set empty; a resolver is in the set only while
   its request is parked and is called by the end of a tick only, so no
   waiter is released twice and none survives a tick. *)
C11_WaitersReleased ==
    [][/\ TickEnds => /\ tickWaiters' = {}
                       /\ \A a \in tickWaiters : pc'[a] = "released"
       /\ tickPhase # 0 => tickWaiters' \subseteq tickWaiters
       /\ \A a \in Agents :
             /\ (a \in tickWaiters') <=> (pc'[a] = "parked")
             /\ (pc[a] # "released" /\ pc'[a] = "released")
                    => (TickEnds /\ a \in tickWaiters)]_vars

(* Both requests were parked, the tick threw before it wrote the tick
   number, and both are released *)
C11_Witness ==
    /\ \A a \in Agents : pc[a] = "released"
    /\ tick_number = 0
    /\ tickPhase = 0
    /\ tickWaiters = {}

(* C12: a parked /wait request always completes *)
C12_WaitCompletes ==
    \A a \in Agents : (pc[a] = "parked") ~> (pc[a] = "idle")

(* A step of a request handler: a response is served or a request parks *)
HandlerStep ==
    \/ lastResp'.agent # NULL
    \/ \E a \in Agents : pc[a] # "parked" /\ pc'[a] = "parked"

(* C13: no step of a request handler happens while processTick runs, so a
   response is built from the store as it is before or after the whole
   tick; the AP check and the debit of a request are one step: the debit is
   taken from the AP the check has just read. *)
C13_TickAtomic ==
    [][/\ HandlerStep => (tickPhase = 0 /\ tickPhase' = 0)
       /\ tickPhase # 0 => (tickPhase' = 0 \/ tickPhase' = tickPhase + 1)
       /\ \A a \in Agents :
             charged'[a] > charged[a] =>
                /\ agents[a].ap >= charged'[a] - charged[a]
                /\ agents'[a].ap = agents[a].ap - (charged'[a] - charged[a])]_vars

(* A response served after a whole tick that ran a queued action *)
C13_Witness ==
    /\ lastResp.agent = "a1"
    /\ lastResp.envelope
    /\ lastResp.tick = 1
    /\ tickPhase = 0
    /\ Len(hist) > 0
    /\ hist[1].execs = <<1>>

----------------------------------------------------------------------------
(* Purchases and the tick counter *)

(* C14: a tick leaves purchased_ap_this_tick at 0 for every agent *)
C14_PurchasesReset ==
    [][TickEnds => \A a \in Agents : agents'[a].purchased_ap_this_tick = 0]_vars

(* The count a buy_ap call asks for, once clamped to 1..10 *)
Asked == ClampCount(lastResp'.body.count)

(* C15: buy_ap takes no AP and never lets purchased_ap_this_tick pass
   MAX_BUY_AP_PER_TICK; a call for c succeeds iff what was bought plus c is
   within the cap, and then adds exactly c to ap and to
   purchased_ap_this_tick; a call that would pass the cap is an error and
   changes neither. *)
C15_BuyApCap ==
    [][/\ \A a \in Agents : agents'[a].purchased_ap_this_tick <= MAX_BUY_AP_PER_TICK
       /\ lastResp'.verb = "buy_ap" =>
             LET a == lastResp'.agent
                 fits == agents[a].purchased_ap_this_tick + Asked <= MAX_BUY_AP_PER_TICK
             IN /\ lastResp'.status = 200
                /\ (lastResp'.result.kind = "purchased") <=> fits
                /\ (lastResp'.result.kind = "error") <=> ~fits
                /\ fits => /\ agents'[a].ap = agents[a].ap + Asked
                            /\ agents'[a].purchased_ap_this_tick =
                                  agents[a].purchased_ap_this_tick + Asked
                /\ ~fits => agents'[a] = agents[a]
                /\ charged' = charged]_vars

(* A call for 7 AP is refused with 14 bought: 21 would pass the cap *)
C15_Witness ==
    /\ lastResp.verb = "buy_ap"
    /\ lastResp.body.count = 7
    /\ lastResp.result.kind = "error"
    /\ agents["a1"].purchased_ap_this_tick = 14

(* C16: every run of processTick adds exactly 1 to tick_number, nothing
   else writes it, and last_tick_at never decreases. *)
C16_TickCounter ==
    [][/\ (tickPhase = 1 /\ tickPhase' # 0) => tick_number' = tick_number + 1
       /\ ~(tickPhase = 1 /\ tickPhase' # 0) => tick_number' = tick_number
       /\ (tickPhase = 0 /\ tickPhase' # 0) => tickPhase' = 1
       /\ tickPhase \in 1..4 => tickPhase' = tickPhase + 1
       /\ last_tick_at' >= last_tick_at]_vars

(* Two runs of processTick at different times, and time has passed since *)
C16_Witness ==
    /\ tick_number = 2
    /\ tickPhase = 0
    /\ last_tick_at = 1
    /\ now = 2
    /\ lastResp.agent = "a1"
    /\ lastResp.tick = 2

(* C17: the counter of every instance is at most MAX_INTERACTIONS_PER_TICK,
   and since the last reset of the counters at most that many rules have
   been evaluated on any one instance. *)
C17_InteractionBudget ==
    \A i \in DOMAIN instances :
        /\ instances[i].interactions_used_this_tick <= MAX_INTERACTIONS_PER_TICK
        /\ instances[i].fired <= MAX_INTERACTIONS_PER_TICK

(* The containers above an instance: the number of container edges from it
   to its root, -1 when the edges never reach a root *)
RECURSIVE EdgesToRoot(_, _, _)
EdgesToRoot(rows, id, fuel) ==
    IF rows[id].container_type = "instance" /\ rows[id].container_id \in DOMAIN rows
    THEN IF fuel = 0 THEN -1
         ELSE IF EdgesToRoot(rows, rows[id].container_id, fuel - 1) = -1 THEN -1
         ELSE EdgesToRoot(rows, rows[id].container_id, fuel - 1) + 1
    ELSE IF rows[id].container_type = "instance" THEN 1
    ELSE 0

Depth(rows, id) == EdgesToRoot(rows, id, Cardinality(DOMAIN rows))

(* C18: the container graph of the instances is acyclic and no instance is
   more than MAX_CONTAINMENT_DEPTH container edges away from its root. *)
C18_Containment ==
    \A i \in DOMAIN instances :
        /\ Depth(instances, i) >= 0
        /\ Depth(instances, i) <= MAX_CONTAINMENT_DEPTH

(* C19: every instance of kind node has a null container. *)
C19_NodesTopLevel ==
    \A i \in DOMAIN instances :
        instances[i].type = "node" =>
            instances[i].container_type = NULL /\ instances[i].container_id = NULL

(* `id` is directly or indirectly contained in the instance `top` *)
RECURSIVE Within(_, _, _, _)
Within(rows, id, top, fuel) ==
    /\ rows[id].container_type = "instance"
    /\ \/ rows[id].container_id = top
       \/ /\ fuel > 0
          /\ rows[id].container_id \in DOMAIN rows
          /\ Within(rows, rows[id].container_id, top, fuel - 1)

ContainedIn(rows, top) ==
    {i \in DOMAIN rows \ {top} : Within(rows, i, top, Cardinality(DOMAIN rows))}

(* An entry of the last tick: a successful delete of a node instance *)
NodeDeleted(e) ==
    /\ e.action = "delete"
    /\ e.executed
    /\ ~e.threw
    /\ e.result.error = NULL
    /\ e.target_id \in DOMAIN e.instances_before
    /\ e.instances_before[e.target_id].type = "node"

(* C20: when a delete action on a node N has succeeded, every agent that
   was in N is in its home node and has got a system event, and every
   instance that was directly or indirectly contained in N is destroyed. *)
C20_Cascade ==
    \A k \in 1..Len(lastTick) :
        NodeDeleted(lastTick[k]) =>
            /\ \A a \in Agents :
                  lastTick[k].nodes_before[a] = lastTick[k].target_id =>
                      /\ lastTick[k].nodes_after[a] = home_node_id[a]
                      /\ \E j \in 1..Len(lastTick[k].events_added) :
                            /\ lastTick[k].events_added[j].agent_id = a
                            /\ lastTick[k].events_added[j].type = "system"
            /\ \A i \in ContainedIn(lastTick[k].instances_before, lastTick[k].target_id) :
                  lastTick[k].instances_after[i].is_destroyed = 1

(* A delete action on a template that has succeeded *)
TemplateDeleted(e) ==
    /\ e.action = "delete"
    /\ e.executed
    /\ ~e.threw
    /\ e.result.error = NULL
    /\ e.target_id \in TemplateIds

(* The instances the deletion of the template makes void *)
VoidedBy(e) ==
    {i \in DOMAIN e.instances_before :
        /\ e.instances_before[i].template_id = e.target_id
        /\ e.instances_before[i].is_void = 0}

(* C21: when a delete action on a template has succeeded, its agent owns
   the template, every instance of the template is void and has no
   template, every instance directly or indirectly contained in one of
   them is destroyed, every agent that was in one of them is in its home
   node, the template is gone and no instance refers to it. *)
C21_DeleteTemplate ==
    \A k \in 1..Len(lastTick) :
        TemplateDeleted(lastTick[k]) =>
            /\ templates[lastTick[k].target_id].owner_id = lastTick[k].agent_id
            /\ \A i \in VoidedBy(lastTick[k]) :
                  /\ lastTick[k].instances_after[i].is_void = 1
                  /\ lastTick[k].instances_after[i].template_id = NULL
                  /\ \A j \in ContainedIn(lastTick[k].instances_before, i) :
                        lastTick[k].instances_after[j].is_destroyed = 1
            /\ \A a \in Agents :
                  lastTick[k].nodes_before[a] \in VoidedBy(lastTick[k]) =>
                      lastTick[k].nodes_after[a] = home_node_id[a]
            /\ lastTick[k].target_id \in dropped
            /\ \A i \in DOMAIN lastTick[k].instances_after :
                  lastTick[k].instances_after[i].template_id # lastTick[k].target_id

(* A custom verb that has run: all it changes is done by the effects of
   the rules it fired *)
VerbRan(e) ==
    /\ e.action \notin {"create", "edit", "delete", "travel", "home", "take", "drop"}
    /\ e.executed
    /\ ~e.threw
    /\ e.result.error = NULL

(* C22: when the effects of a custom verb have marked an instance
   destroyed, every instance that was directly or indirectly contained in
   it is destroyed, and every agent that was in it is in its home node. *)
C22_DestroyCascade ==
    \A k \in 1..Len(lastTick) :
        VerbRan(lastTick[k]) =>
            \A i \in DOMAIN lastTick[k].instances_before :
                /\ lastTick[k].instances_before[i].is_destroyed = 0
                /\ lastTick[k].instances_after[i].is_destroyed = 1
                => /\ \A j \in ContainedIn(lastTick[k].instances_before, i) :
                         lastTick[k].instances_after[j].is_destroyed = 1
                   /\ \A a \in Agents :
                         lastTick[k].nodes_before[a] = i =>
                             lastTick[k].nodes_after[a] = home_node_id[a]

(* The rule in force: the override of the instance for the key, else the
   default of its template, else "owner" *)
EffectiveRule(row, key) ==
    IF key \in DOMAIN row.permissions THEN row.permissions[key]
    ELSE IF row.template_id # NULL
            /\ key \in DOMAIN templates[row.template_id].default_permissions
    THEN templates[row.template_id].default_permissions[key]
    ELSE PRule("owner")

(* The node an instance is in: itself, or the node it is contained in *)
NodeOf(rows, id) ==
    IF rows[id].type = "node" THEN id
    ELSE IF \E n \in DOMAIN rows : rows[n].type = "node" /\ id \in ContainedIn(rows, n)
    THEN CHOOSE n \in DOMAIN rows : rows[n].type = "node" /\ id \in ContainedIn(rows, n)
    ELSE NULL

(* What the rule in force grants the agent `a`, in the nodes `nodes` *)
Granted(rows, nodes, a, id, key) ==
    CASE EffectiveRule(rows[id], key).kind = "any" -> TRUE
      [] EffectiveRule(rows[id], key).kind = "none" -> FALSE
      [] EffectiveRule(rows[id], key).kind = "owner" ->
            rows[id].template_id # NULL /\ templates[rows[id].template_id].owner_id = a
      [] EffectiveRule(rows[id], key).kind = "node" ->
            NodeOf(rows, id) # NULL /\ nodes[a] = NodeOf(rows, id)
      [] EffectiveRule(rows[id], key).kind = "list" ->
            username[a] \in EffectiveRule(rows[id], key).names

(* The handler of the entry e got as far as checkPermission for `key` *)
PermissionAsked(e, key) ==
    /\ e.executed
    /\ e.target_id \in DOMAIN e.instances_before
    /\ e.instances_before[e.target_id].is_destroyed = 0
    /\ CASE key = "interact" -> e.action = "poke"
                                 /\ e.instances_before[e.target_id].is_void = 0
         [] key = "edit" -> e.action = "edit"
                             /\ e.instances_before[e.target_id].is_void = 0
         [] key = "perms" -> e.action = "edit"
                              /\ e.instances_before[e.target_id].is_void = 0
                              /\ e.result.error # "no edit permission"
         [] key = "delete" -> e.action = "delete"

Refusal(key) ==
    CASE key = "interact" -> "no interact permission"
      [] key = "edit" -> "no edit permission"
      [] key = "perms" -> "no perms permission"
      [] key = "delete" -> "no delete permission"

(* C23: a handler that asks checkPermission(agent, instance, key) refuses
   exactly when the rule in force (override, else template default, else
   "owner") does not grant the agent the key, and it never throws. *)
C23_CheckPermission ==
    \A k \in 1..Len(lastTick) :
        \A key \in {"interact", "edit", "perms", "delete"} :
           PermissionAsked(lastTick[k], key) =>
                /\ ~lastTick[k].threw
                /\ lastTick[k].result.error = Refusal(key)
                   <=> ~Granted(lastTick[k].instances_before, lastTick[k].nodes_before,
                                lastTick[k].agent_id, lastTick[k].target_id, key)

(* under the rule "node", a1 in the node of b1 was granted interact and a2,
   elsewhere, was refused delete *)
C23_Witness ==
    /\ \E k \in 1..Len(lastTick) :
          /\ PermissionAsked(lastTick[k], "interact")
          /\ lastTick[k].result.error = NULL
          /\ EffectiveRule(lastTick[k].instances_before["b1"], "interact").kind = "node"
    /\ \E k \in 1..Len(lastTick) :
          /\ PermissionAsked(lastTick[k], "delete")
          /\ lastTick[k].result.error = "no delete permission"
          /\ EffectiveRule(lastTick[k].instances_before["b1"], "delete").kind = "node"

(* C24: whenever the override of an instance with a template grants an
   agent a key, the owner of the template holds that key on the instance. *)
C24_Monotonicity ==
    \A i \in DOMAIN instances : \A key \in PermissionKeys : \A a \in Agents :
        /\ HasTemplate(Store, instances[i].template_id)
        /\ key \in DOMAIN instances[i].permissions
        /\ Granted(instances, [b \in Agents |-> agents[b].current_node_id], a, i, key)
        => Granted(instances, [b \in Agents |-> agents[b].current_node_id],
                   templates[instances[i].template_id].owner_id, i, key)

(* The permission each verb of the gadget x1 needs on the box b1, which
   is its container and the subject of `mark` *)
EffectKey(verb) ==
    CASE verb \in {"fill", "mark"} -> "edit"
      [] verb \in {"grab", "hand"} -> "contain"
      [] verb = "use" -> "delete"
      [] verb = "lock" -> "perms"

(* A verb of x1 has run its rule: an effect on b1, then ["add", "self.n", 1] *)
EffectRan(e) ==
    /\ VerbRan(e)
    /\ e.target_id = "x1"
    /\ e.action \in {"fill", "mark", "grab", "hand", "use", "lock"}

OwnerHolds(e, key) ==
    Granted(e.instances_before, e.nodes_before, templates["te"].owner_id, "b1", key)

Contents(rows, id) ==
    {i \in DOMAIN rows : rows[i].container_type = "instance" /\ rows[i].container_id = id}

(* The effect changed b1: its row, or what it holds *)
TargetChanged(e) ==
    \/ e.instances_after["b1"] # e.instances_before["b1"]
    \/ Contents(e.instances_after, "b1") # Contents(e.instances_before, "b1")

(* C25: an effect on another instance changes it only if the owner of the
   firing template holds the matching permission on it when the effect
   runs; without the permission no instance but self changes; in both
   cases the rest of the rule runs. *)
C25_EffectAuthorisation ==
    \A k \in 1..Len(lastTick) :
        EffectRan(lastTick[k]) =>
            /\ TargetChanged(lastTick[k])
                  => OwnerHolds(lastTick[k], EffectKey(lastTick[k].action))
            /\ ~OwnerHolds(lastTick[k], EffectKey(lastTick[k].action))
                  => \A i \in DOMAIN lastTick[k].instances_before \ {"x1"} :
                        lastTick[k].instances_after[i] = lastTick[k].instances_before[i]
            /\ lastTick[k].instances_after["x1"].n
                  = lastTick[k].instances_before["x1"].n + 1

(* in one tick an effect changed b1 and another, without the permission of
   the owner, changed nothing *)
C25_Witness ==
    /\ \E k \in 1..Len(lastTick) :
          EffectRan(lastTick[k]) /\ TargetChanged(lastTick[k])
    /\ \E k \in 1..Len(lastTick) :
          /\ EffectRan(lastTick[k])
          /\ ~OwnerHolds(lastTick[k], EffectKey(lastTick[k].action))
          /\ lastTick[k].instances_after["x1"].n = 1

(* The verb lock of x1 has run: ["perm", "container", "delete", ["list", ["a2"]]] *)
PermRan(e) == VerbRan(e) /\ e.target_id = "x1" /\ e.action = "lock"

(* C26: a perm effect on another instance leaves its permissions
   unchanged unless the template owner holds both perms and the key
   granted on it; with both, the override of the key is the rule given. *)
C26_PermEscalation ==
    \A k \in 1..Len(lastTick) :
        PermRan(lastTick[k]) =>
            IF OwnerHolds(lastTick[k], "perms") /\ OwnerHolds(lastTick[k], "delete")
            THEN lastTick[k].instances_after["b1"].permissions
                   = ("delete" :> PList({"a2"}))
                       @@ lastTick[k].instances_before["b1"].permissions
            ELSE lastTick[k].instances_after["b1"].permissions
                   = lastTick[k].instances_before["b1"].permissions

(* the owner held perms on b1 but not delete, and the perm effect ran *)
C26_Witness ==
    \E k \in 1..Len(lastTick) :
        /\ PermRan(lastTick[k])
        /\ OwnerHolds(lastTick[k], "perms")
        /\ ~OwnerHolds(lastTick[k], "delete")
        /\ lastTick[k].instances_after["x1"].n > lastTick[k].instances_before["x1"].n

(* Bit b (a power of 2) of the number d *)
Bit(d, b) == (d \div b) % 2 = 1

(* What a verb of template td added to self.n: the sum of the adds it ran *)
Added(e) == e.instances_after["x1"].n - e.instances_before["x1"].n

(* The adds of each verb of td that come after its deny: in the same list,
   in the enclosing lists, and in the second rule *)
AfterDeny(verb) ==
    CASE verb = "halt" -> {2, 4}
      [] verb = "deep" -> {2, 4, 8, 16}
      [] verb = "skip" -> {4, 8}
      [] verb = "gate" -> {2, 4, 8}
      [] verb = "veto" -> {4}

DenyVerb(e) ==
    /\ e.action \in {"halt", "deep", "skip", "gate", "veto"}
    /\ e.executed
    /\ ~e.threw
    /\ e.target_id = "x1"

(* C27: the call of fireInteractions returns true, and the verb is
   rejected, exactly when a deny ran (the add of 1 before it ran); then
   none of the adds after the deny ran: not in its list, not in the lists
   around it, not in the later rule. *)
C27_Deny ==
    \A k \in 1..Len(lastTick) :
        DenyVerb(lastTick[k]) =>
            /\ lastTick[k].result.error = "action denied by interaction"
                  <=> Bit(Added(lastTick[k]), 1)
            /\ lastTick[k].result.error \in {NULL, "action denied by interaction"}
            /\ Bit(Added(lastTick[k]), 1) =>
                  \A b \in AfterDeny(lastTick[k].action) : ~Bit(Added(lastTick[k]), b)

(* in one tick a deny two blocks deep stopped its rule and the next, and a
   verb whose deny was not reached ran both its rules *)
C27_Witness ==
    /\ \E k \in 1..Len(lastTick) :
          /\ DenyVerb(lastTick[k])
          /\ lastTick[k].action = "deep"
          /\ lastTick[k].result.error = "action denied by interaction"
          /\ Added(lastTick[k]) = 1
    /\ \E k \in 1..Len(lastTick) :
          /\ DenyVerb(lastTick[k])
          /\ lastTick[k].action = "skip"
          /\ lastTick[k].result.error = NULL
          /\ Added(lastTick[k]) = 14

(* The rules fired on the instance i during the action of the entry e *)
FiredIn(e, i) == e.instances_after[i].fired - e.instances_before[i].fired

(* The broadcasts among the events the action added, in the order of the rows *)
Broadcasts(e) == SelectSeq(e.events_added, LAMBDA ev : ev.type = "broadcast")

Messages(e) == [j \in 1..Len(Broadcasts(e)) |-> Broadcasts(e)[j].data.message]

Said(e, message) == \E j \in 1..Len(Broadcasts(e)) : Messages(e)[j] = message

(* A travel of a1 from o1 whose first link is k1 *)
HopTaken(e) ==
    /\ e.action = "travel"
    /\ e.executed
    /\ ~e.threw
    /\ e.node_seen = "o1"
    /\ Len(e.via) > 0
    /\ e.via[1] = "k1"

(* The hop of the entry e was denied with the agent in `node`: the agent
   is still there, the result says so, and link usage rows and arrivals
   are those of the hops before *)
StoppedAt(e, node, hopsBefore) ==
    /\ e.result.stopped_at = node
    /\ e.result.arrived_at = NULL
    /\ e.node_after = node
    /\ e.moved = hopsBefore
    /\ Cardinality({j \in 1..Len(Broadcasts(e)) : Messages(e)[j] = "arrived"}) = hopsBefore

(* C28: a hop fires travel on the link, then exit on the origin, then
   enter on the destination.  A denial leaves the later ones unfired, the
   agent where the hops before took it, no link usage row nor arrival for
   the hop, the links after it unfired, stopped_at that node, and the
   broadcast of the denying rule in the events. *)
C28_HopOrder ==
    \A k \in 1..Len(lastTick) :
        HopTaken(lastTick[k]) =>
            LET e == lastTick[k]
                deniesTravel == e.instances_before["k1"].template_id = "lsd"
                deniesExit == e.instances_before["o1"].template_id = "nx"
                deniesEnter == e.instances_before["d1"].template_id = "ne"
            IN  CASE deniesTravel ->
                       /\ e.result.error = "travel denied"
                       /\ StoppedAt(e, "o1", 0)
                       /\ FiredIn(e, "k1") = 1 /\ FiredIn(e, "o1") = 0 /\ FiredIn(e, "d1") = 0
                       /\ FiredIn(e, "k2") = 0 /\ FiredIn(e, "k3") = 0
                       /\ Messages(e) = <<"travel">>
                  [] ~deniesTravel /\ deniesExit ->
                       /\ e.result.error = "exit denied by node"
                       /\ StoppedAt(e, "o1", 0)
                       /\ FiredIn(e, "k1") = 1 /\ FiredIn(e, "o1") = 1 /\ FiredIn(e, "d1") = 0
                       /\ FiredIn(e, "k2") = 0 /\ FiredIn(e, "k3") = 0
                       /\ Messages(e) = <<"travel", "exit">>
                  [] ~deniesTravel /\ ~deniesExit /\ deniesEnter ->
                       /\ e.result.error = "entry denied by destination node"
                       /\ StoppedAt(e, "o1", 0)
                       /\ FiredIn(e, "k1") = 1 /\ FiredIn(e, "o1") = 1 /\ FiredIn(e, "d1") = 1
                       /\ FiredIn(e, "k2") = 0 /\ FiredIn(e, "k3") = 0
                       /\ Messages(e) = <<"travel", "exit", "enter">>
                  [] OTHER ->
                       /\ SubSeq(Messages(e), 1, 4) = <<"travel", "exit", "enter", "arrived">>
                       /\ e.via = <<"k1">> =>
                             /\ e.result.error = NULL
                             /\ e.result.arrived_at = "d1"
                             /\ e.node_after = "d1"
                             /\ e.moved = 1
                       /\ e.via = <<"k1", "k3">> =>
                             /\ e.result.error = "travel denied"
                             /\ StoppedAt(e, "d1", 1)
                             /\ FiredIn(e, "k3") = 1
                             /\ FiredIn(e, "d1") = 1 /\ FiredIn(e, "o1") = 1
                             /\ Said(e, "travel")

(* a travel was denied by the exit rule of o1, after the says of the link
   and of o1 *)
C28_Witness ==
    \E k \in 1..Len(lastTick) :
        /\ HopTaken(lastTick[k])
        /\ lastTick[k].result.error = "exit denied by node"
        /\ Messages(lastTick[k]) = <<"travel", "exit">>

(* The nodes a random link may lead the agent `a` to from the node `from` *)
Eligible(rows, nodes, a, from) ==
    {n \in DOMAIN rows :
        /\ rows[n].type = "node"
        /\ rows[n].is_void = 0
        /\ rows[n].is_destroyed = 0
        /\ n # from
        /\ \A b \in Agents : home_node_id[b] # n
        /\ Granted(rows, nodes, a, n, "interact")}

(* A travel of one hop through a random link *)
RandomHop(e) ==
    /\ e.action = "travel"
    /\ e.executed
    /\ Len(e.via) = 1
    /\ e.via[1] \in DOMAIN e.instances_before
    /\ e.instances_before[e.via[1]].system_type = "random_link"

(* C29: a travel through a random link that moves the agent takes it to a
   live node other than the one it was in, that is no home node and on
   which it holds interact; when there is no such node the travel fails
   and the agent stays. *)
C29_RandomDestination ==
    \A k \in 1..Len(lastTick) :
        RandomHop(lastTick[k]) =>
            /\ lastTick[k].moved > 0 \/ lastTick[k].node_after # lastTick[k].node_seen
                  => lastTick[k].node_after
                       \in Eligible(lastTick[k].instances_before, lastTick[k].nodes_before,
                                    lastTick[k].agent_id, lastTick[k].node_seen)
            /\ Eligible(lastTick[k].instances_before, lastTick[k].nodes_before,
                        lastTick[k].agent_id, lastTick[k].node_seen) = {}
                  => /\ lastTick[k].threw \/ lastTick[k].result.error # NULL
                     /\ lastTick[k].moved = 0
                     /\ lastTick[k].node_after = lastTick[k].node_seen

(* a2 went through its random link while the home h1 was open to all *)
C29_Witness ==
    \E k \in 1..Len(lastTick) :
        /\ RandomHop(lastTick[k])
        /\ lastTick[k].agent_id = "a2"
        /\ lastTick[k].moved = 1
        /\ lastTick[k].instances_before["h1"].permissions["interact"] = PRule("any")

(* C30: no home node is destroyed or void; delete on it is granted to no
   agent; interact, edit, contain and perms only to the agent whose home
   it is; inspect to every agent. *)
C30_HomeNode ==
    \A a \in Agents :
        /\ instances[home_node_id[a]].is_destroyed = 0
        /\ instances[home_node_id[a]].is_void = 0
        /\ \A b \in Agents :
              /\ ~Granted(instances, [c \in Agents |-> agents[c].current_node_id],
                          b, home_node_id[a], "delete")
              /\ Granted(instances, [c \in Agents |-> agents[c].current_node_id],
                         b, home_node_id[a], "inspect")
              /\ \A key \in {"interact", "edit", "contain", "perms"} :
                    Granted(instances, [c \in Agents |-> agents[c].current_node_id],
                            b, home_node_id[a], key) => b = a

----------------------------------------------------------------------------
(* The system instances of the home nodes.                                 *)

(* The world of boxes with what createHomeNode puts into each home: the
   random link (p1, p2) and the link index (i1, i2); the box b2 lies in the
   home h1 *)
SystemWorld ==
    [i \in {"p1", "p2", "i1", "i2"} |->
        CASE i = "p1" -> Row(NULL, "link", HomePermissions("a1"), "instance", "h1", 0, 0, "random_link", NULL)
          [] i = "p2" -> Row(NULL, "link", HomePermissions("a2"), "instance", "h2", 0, 0, "random_link", NULL)
          [] i = "i1" -> Row(NULL, "thing", HomePermissions("a1"), "instance", "h1", 0, 0, "link_index", NULL)
          [] i = "i2" -> Row(NULL, "thing", HomePermissions("a2"), "instance", "h2", 0, 0, "link_index", NULL)]
    @@ [InitWorld EXCEPT !["b2"].container_id = "h1"]

InitSystem == InitWorldWith(SystemWorld, home_node_id)

(* What the agents ask at home: take and drop of the link index, reset,
   and edit and delete of the system instances *)
RequestsSystem ==
    {Request("take", TargetBody("i1", NULL)),
     Request("take", TargetBody("b2", NULL)),
     Request("drop", TargetBody("i1", NULL)),
     Request("reset", TargetBody("h1", NULL)),
     Request("edit", EditBody("p1", [delete |-> PRule("any")])),
     Request("delete", TargetBody("p1", NULL)),
     Request("delete", TargetBody("i1", NULL))}

NextSystem ==
    \/ \E a \in Agents, r \in RequestsSystem :
           ActionVerb(a, r.verb, r.body, MaxWorldEvents, MaxQueue)
    \/ WorldTicks

SpecSystem == InitSystem /\ [][NextSystem]_vars

(* The live instances of a system type that lie directly in a node *)
SystemInstances(rows, node, st) ==
    {i \in DOMAIN rows : /\ rows[i].system_type = st
                         /\ rows[i].container_type = "instance"
                         /\ rows[i].container_id = node
                         /\ rows[i].is_destroyed = 0}

(* C31: every home node directly contains one live random_link link and
   one live link_index thing. *)
C31_SystemInstances ==
    \A a \in Agents :
        /\ \E i \in SystemInstances(instances, home_node_id[a], "random_link") :
              instances[i].type = "link"
        /\ \E i \in SystemInstances(instances, home_node_id[a], "link_index") :
              instances[i].type = "thing"

(* C32: once a request of an agent has been answered, the agent has a
   current node: an agent sent to limbo by the idle cutoff is back in a
   node after its next authenticated request. *)
C32_LimboWake ==
    lastResp.agent \in Agents => agents[lastResp.agent].current_node_id # NULL

----------------------------------------------------------------------------
(* What inspect shows.                                                     *)

(* Inspect input set: the box b1, live with the template tb or void, has
   no override or one rule for every key; both agents inspect b1, the home
   h1 and an id that no instance has, and a1 opens perms on b1 *)
InitInspect ==
    \E tpl \in {"tb", NULL}, ov \in Overrides :
        InitWorldWith([InitWorld EXCEPT !["b1"] =
                          Row(tpl, "thing", ov, "instance", "w1",
                              IF tpl = NULL THEN 1 ELSE 0, 0, NULL, NULL)],
                      [a \in Agents |-> IF a = "a1" THEN "w1" ELSE "h2"])

RequestsInspect ==
    {Request("inspect", TargetBody("b1", NULL)),
     Request("inspect", TargetBody("h1", NULL)),
     Request("inspect", TargetBody("gone", NULL)),
     Request("edit", EditBody("b1", [perms |-> PRule("any")]))}

NextInspect ==
    \/ \E a \in Agents, r \in RequestsInspect :
           ActionVerb(a, r.verb, r.body, MaxWorldEvents, MaxQueue)
    \/ WorldTicks

SpecInspect == InitInspect /\ [][NextInspect]_vars

(* The last response answers an inspect that returned the instance *)
InspectShown ==
    /\ lastResp.verb = "inspect"
    /\ lastResp.status = 200
    /\ lastResp.result.inspect.error = NULL

(* C33: an inspect result holds permissions, default_permissions and
   interactions exactly when the caller holds perms on the target. *)
C33_InspectPerms ==
    InspectShown =>
        \A shown \in {lastResp.result.inspect.permissions,
                      lastResp.result.inspect.default_permissions,
                      lastResp.result.inspect.interactions} :
            shown = Granted(instances, [c \in Agents |-> agents[c].current_node_id],
                            lastResp.agent, lastResp.body.target_id, "perms")

----------------------------------------------------------------------------
(* Take and drop that end in an error.                                     *)

(* Take input set: both agents are in w1, where the box b2 has the template
   tt with its take and drop rules.  a1, the owner, takes and drops b2 with
   and without `into`; a2 holds no contain on b2. *)
InitTake ==
    InitWorldWith([InitWorld EXCEPT !["b2"].template_id = "tt"],
                  [a \in Agents |-> "w1"])

RequestsTake ==
    {Request("take", TargetBody("b2", NULL)),
     Request("take", TargetBody("b2", "gone")),
     Request("take", TargetBody("b2", "b1")),
     Request("take", TargetBody("b1", NULL)),
     Request("drop", TargetBody("b2", NULL)),
     Request("drop", TargetBody("b2", "gone")),
     Request("drop", TargetBody("b2", "h2"))}

NextTake ==
    \/ \E a \in Agents, r \in RequestsTake :
           ActionVerb(a, r.verb, r.body, MaxHopEvents, MaxQueue)
    \/ Tick({}, FixedOrder, 0, MaxHopEvents, MaxTick)

SpecTake == InitTake /\ [][NextTake]_vars

(* The errors of processTake and processDrop for a missing permission, a
   missing or invalid `into` and the containment depth *)
CheckErrors ==
    {"no contain permission on thing", "no contain permission on container",
     "no contain permission on destination", "destination container not found",
     "destination must be in your inventory", "destination not found",
     "destination not in current node", "containment depth exceeded"}

(* A take or drop of the tick that returned one of these errors *)
FailedMove(e) ==
    /\ e.executed
    /\ e.action \in {"take", "drop"}
    /\ ~e.threw
    /\ e.result.error \in CheckErrors

(* C34: a take or drop that fails a permission, `into` or depth check
   leaves the container, the fields and the interaction counter of every
   instance as they were and emits no broadcast. *)
C34_NoPartialState ==
    \A k \in 1..Len(lastTick) :
        FailedMove(lastTick[k]) =>
            /\ \A i \in DOMAIN lastTick[k].instances_before :
                  /\ lastTick[k].instances_after[i].container_type
                       = lastTick[k].instances_before[i].container_type
                  /\ lastTick[k].instances_after[i].container_id
                       = lastTick[k].instances_before[i].container_id
                  /\ lastTick[k].instances_after[i].n = lastTick[k].instances_before[i].n
                  /\ lastTick[k].instances_after[i].interactions_used_this_tick
                       = lastTick[k].instances_before[i].interactions_used_this_tick
            /\ Broadcasts(lastTick[k]) = <<>>

----------------------------------------------------------------------------
(* The order of the phases of a tick.                                      *)

(* Phase input set: a1 is in w1 with g5 (five tick rules) and the box b1
   (a poke rule) that holds x1 (five tick rules); a2 is at home in h2 with
   b2 (five tick rules).  Both poke b1, a1 waits for the tick, and the idle
   cutoff takes any of the agents. *)
InitPhases ==
    InitWorldWith([InitWorld EXCEPT !["b1"].template_id = "tx",
                                    !["x1"].template_id = "t5",
                                    !["b2"].template_id = "t5",
                                    !["b2"].container_id = "h2"],
                  [a \in Agents |-> IF a = "a1" THEN "w1" ELSE "h2"])

NextPhases ==
    \/ \E a \in Agents : ActionVerb(a, "poke", TargetBody("b1", NULL), MaxWorldEvents, MaxQueue)
    \/ \E a \in Agents : Poll(a)
    \/ WaitPark("a1")
    \/ WaitResume("a1")
    \/ \E idle \in SUBSET Agents : Tick(idle, FixedOrder, 0, MaxWorldEvents, MaxTick)

SpecPhases == InitPhases /\ [][NextPhases]_vars

(* The instances and the nodes of the agents as the queue drain of the
   last tick found them; requests change neither *)
AtDrain ==
    IF lastTick = <<>>
    THEN [instances |-> instances,
          nodes |-> [a \in Agents |-> agents[a].current_node_id]]
    ELSE [instances |-> lastTick[1].instances_before,
          nodes |-> lastTick[1].nodes_before]

(* The instances with `tick` rules; no queued action of the input set fires
   a rule of theirs *)
Tickers == {i \in DOMAIN instances : instances[i].template_id = "t5"}

(* C35: in a tick the world tick comes after the idle cutoff and before the
   queue drain, and the waiters are released last: the tick rules have all
   run when the first queued action runs and none runs later, they run only
   on instances directly in a node that an agent is in after the cutoff,
   and when the waiters are released every action that ran has its
   action_result event stored. *)
C35_PhaseOrder ==
    /\ \A i \in Tickers :
          /\ \A k \in 1..Len(lastTick) :
                /\ lastTick[k].instances_before[i].interactions_used_this_tick
                     = instances[i].interactions_used_this_tick
                /\ lastTick[k].instances_before[i].n = instances[i].n
          /\ AtDrain.instances[i].interactions_used_this_tick > 0
                <=> /\ AtDrain.instances[i].container_type = "instance"
                    /\ \E a \in Agents : AtDrain.nodes[a] = AtDrain.instances[i].container_id
                    /\ tick_number > 0
    /\ (\E a \in Agents : pc[a] = "released") =>
          \A k \in 1..Len(lastTick) :
              lastTick[k].executed =>
                  \E j \in 1..Len(events) :
                      /\ events[j].type = "action_result"
                      /\ events[j].data.action_id = lastTick[k].id

(* a1, waiting, went to limbo in a tick in which the tick rules ran on b2
   in h2 and not on g5 in w1, and a2 poked b1; a1 is released *)
C35_Witness ==
    /\ pc["a1"] = "released"
    /\ agents["a1"].current_node_id = NULL
    /\ instances["b2"].interactions_used_this_tick = MAX_INTERACTIONS_PER_TICK
    /\ instances["g5"].interactions_used_this_tick = 0
    /\ \E k \in 1..Len(lastTick) :
          /\ lastTick[k].executed
          /\ lastTick[k].agent_id = "a2"
          /\ lastTick[k].instances_after["b1"].n > lastTick[k].instances_before["b1"].n

----------------------------------------------------------------------------
(* Destroyed and void instances.                                           *)

(* Terminal input set: in the world with the system instances, a1 at home
   and a2 in w1 delete the template tb of the boxes (b1 and b2 become
   void), delete b1 and the random link p1, destroy b1 through the `use`
   rule of x1, reset the home h1 (b2 lies in it), and afterwards edit, take
   and poke what is gone; delete on p1 is open, as after an edit by a1 *)
InitTerminal ==
    InitWorldWith([SystemWorld EXCEPT
                      !["p1"] = Row(NULL, "link",
                                    [HomePermissions("a1") EXCEPT !.delete = PRule("any")],
                                    "instance", "h1", 0, 0, "random_link", NULL)],
                  [a \in Agents |-> IF a = "a1" THEN "h1" ELSE "w1"])

RequestsTerminal ==
    {Request("delete", TargetBody("tb", NULL)),
     Request("delete", TargetBody("b1", NULL)),
     Request("delete", TargetBody("p1", NULL)),
     Request("use", TargetBody("x1", NULL)),
     Request("reset", TargetBody("h1", NULL)),
     Request("edit", EditBody("b1", [delete |-> PRule("any")])),
     Request("take", TargetBody("b2", NULL)),
     Request("poke", TargetBody("x1", NULL))}

NextTerminal ==
    \/ \E a \in Agents, r \in RequestsTerminal :
           ActionVerb(a, r.verb, r.body, MaxWorldEvents, MaxWorldQueue)
    \/ WorldTicks

SpecTerminal == InitTerminal /\ [][NextTerminal]_vars

(* C36: an instance that is destroyed stays destroyed, and one that is
   void stays void and without template, in every step. *)
C36_Terminal ==
    [][\A i \in DOMAIN instances :
          /\ i \in DOMAIN instances'
          /\ instances[i].is_destroyed = 1 => instances'[i].is_destroyed = 1
          /\ instances[i].is_void = 1 =>
                instances'[i].is_void = 1 /\ instances'[i].template_id = NULL]_vars

(* b1 and b2 are void, p1 and b2 are destroyed, and a reset of the home ran
   in the last tick, after p1 was destroyed *)
C36_Witness ==
    /\ instances["b1"].is_void = 1
    /\ instances["b2"].is_void = 1
    /\ instances["p1"].is_destroyed = 1
    /\ instances["b2"].is_destroyed = 1
    /\ \E k \in 1..Len(lastTick) :
          /\ lastTick[k].action = "reset"
          /\ lastTick[k].result.error = NULL
          /\ lastTick[k].instances_before["p1"].is_destroyed = 1

----------------------------------------------------------------------------
(* Multi-hop travel and single hops.                                       *)

(* One travel action of agent a with via = linkIds, debited and run on the
   store S *)
MultiHop(S, a, linkIds, order) ==
    processTravel(Debit(S, a, apCost("travel", TravelBody(Via("array", linkIds)))),
                  a, S.agents[a], TravelBody(Via("array", linkIds)), order)

(* The travel actions with via = [linkIds[j]], [linkIds[j+1]], ... of agent
   a, each debited and run on the store the one before left, up to the
   first that returns an error or throws *)
RECURSIVE SingleHops(_, _, _, _, _)
SingleHops(S, a, linkIds, j, order) ==
    IF j > Len(linkIds) THEN Done(S, Ok(S.agents[a].current_node_id))
    ELSE LET R == MultiHop(S, a, <<linkIds[j]>>, order) IN
         IF R.threw \/ R.result.error # NULL THEN R
         ELSE SingleHops(R.S, a, linkIds, j + 1, order)

(* The node, the AP and the link-usage rows agree *)
SameTravel(M, Q, a) ==
    /\ M.S.agents[a].current_node_id = Q.S.agents[a].current_node_id
    /\ M.S.agents[a].ap = Q.S.agents[a].ap
    /\ M.S.link_usage = Q.S.link_usage

(* Multi-hop input set: the world of the random links; a1 travels from
   home over routes of one to three links, through its random link p1,
   the plain links l1 and lx and the denying link lk *)
RoutesMulti ==
    {<<"p1", "lx">>, <<"l1", "lx">>, <<"lk", "l1">>, <<"l1", "lx", "p1">>}

RequestsMulti ==
    {Request("travel", TravelBody(Via("array", r))) :
        r \in RoutesMulti \cup {<<"p1">>, <<"l1">>, <<"lx">>}}

NextMulti ==
    \/ \E r \in RequestsMulti : ActionVerb("a1", r.verb, r.body, MaxHopEvents, MaxQueue)
    \/ \E order \in OrdersRandom : Tick({}, order, 0, MaxHopEvents, MaxTick)

SpecMulti == InitRandom /\ [][NextMulti]_vars

(* C37: one travel action over a route leaves the agent in the same node,
   with the same AP and the same link-usage rows, as the single-link
   travel actions over the links of the route run one after the other up
   to the first that fails. *)
C37_MultiHop ==
    \A r \in RoutesMulti, order \in OrdersRandom :
        agents["a1"].ap >= Len(r) =>
            SameTravel(MultiHop(Store, "a1", r, order),
                       SingleHops(Store, "a1", r, 1, order), "a1")

----------------------------------------------------------------------------
(* Rules and instances that are gone.                                      *)

(* Stale input set: the hop world, where the travel rule of the link k1
   destroys its destination d1 or only says "travel", and the origin o1
   holds z1, whose tick rule destroys the instance its field names, and
   after it z2 with its five tick rules; z1 names z2 or nothing.  a1 is in
   o1 and travels through k1, a2 is in d1. *)
StaleWorld(linkTemplate, named) ==
    [i \in {"z1", "z2"} |->
        IF i = "z1" THEN Row("tz", "thing", NoPerms, "instance", "o1", 0, 0, NULL, named)
        ELSE Row("t5", "thing", NoPerms, "instance", "o1", 0, 0, NULL, NULL)]
    @@ HopWorld(linkTemplate, "ns", "ns")

InitStale ==
    \E lt \in {"ls", "lz"}, named \in {"z2", NULL} :
        InitWorldWith(StaleWorld(lt, named),
                      [a \in Agents |-> IF a = "a1" THEN "o1" ELSE "d1"])

RequestsStale ==
    {Request("travel", TravelBody(Via("array", r))) : r \in {<<"k1">>, <<"k1", "k2">>}}

NextStale ==
    \/ \E r \in RequestsStale : ActionVerb("a1", r.verb, r.body, MaxHopEvents, MaxQueue)
    \/ Tick({}, FixedOrder, 0, MaxHopEvents, MaxTick)

SpecStale == InitStale /\ [][NextStale]_vars

(* C38: no rule is evaluated on an instance while it is void or destroyed. *)
C38_NoRuleOnGone ==
    \A i \in DOMAIN instances : instances[i].gone = 0

----------------------------------------------------------------------------
(* A link that denies travel.                                              *)

MaxAttempts == 4    \* travel actions queued in a run of the denying link

(* Deny input set: in the world of links a1 is at home in h1 with the link
   lk to n1, whose template tk has a tick rule without effects and, as its
   only travel rule, an unconditional deny; a1 travels through lk as often
   as its AP allow, a2 through l2, and both poll *)
RequestsGate ==
    {[agent |-> "a1", verb |-> "travel", body |-> TravelBody(Via("string", <<"lk">>))],
     [agent |-> "a2", verb |-> "travel", body |-> TravelBody(Via("string", <<"l2">>))]}

NextGate ==
    \/ \E r \in RequestsGate : ActionVerb(r.agent, r.verb, r.body, MaxHopEvents, MaxAttempts)
    \/ \E a \in Agents : Poll(a)
    \/ Tick({}, FixedOrder, 0, MaxHopEvents, MaxTick)

SpecGate == Init /\ [][NextGate]_vars

(* A travel of the tick through the link lk *)
ThroughDenyLink(e) ==
    /\ e.executed
    /\ e.action = "travel"
    /\ e.via = <<"lk">>

(* C39: no travel through a link whose only travel rule is an
   unconditional deny moves the agent. *)
C39_DenyLink ==
    \A k \in 1..Len(lastTick) :
        ThroughDenyLink(lastTick[k]) =>
            /\ lastTick[k].moved = 0
            /\ lastTick[k].node_after = lastTick[k].node_seen

(* C40: between ticks every agent that is not in limbo is in an instance
   that exists, is a node and is neither void nor destroyed. *)
C40_AgentsInNodes ==
    \A a \in Agents :
        agents[a].current_node_id # NULL =>
            /\ agents[a].current_node_id \in DOMAIN instances
            /\ instances[agents[a].current_node_id].type = "node"
            /\ instances[agents[a].current_node_id].is_void = 0
            /\ instances[agents[a].current_node_id].is_destroyed = 0

====
